---- MODULE Spec2Model ----
(***************************************************************************)
(* A model of the data pipeline of VIXProj: the source adapters            *)
(* (yfinance_optimizer.py, data_handler.py, coingecko_fetcher.py,          *)
(* real_returns_analyzer.py), the batch fetcher, the derived price level   *)
(* and the real-returns engine.                                            *)
(*                                                                         *)
(* Time.  One tick is 0.5 s, the value of min_request_interval.  Every     *)
(* time stamp is kept relative to the clock: 0 is "now", -1 is one tick    *)
(* ago, and a stamp older than min_request_interval stays at               *)
(* -min_request_interval, since the code only asks whether the stamp is    *)
(* younger than that.  time.sleep(random.uniform(a, b)) is a sleep of a    *)
(* seconds followed by an arbitrary delay of the thread: a thread whose    *)
(* sleep is over need not run at once, so every longer sleep is covered.   *)
(*                                                                         *)
(* A series that an adapter fetches is a sequence of payloads: << >> is    *)
(* the empty series (pd.Series()), <<d>> a non-empty series with the       *)
(* content d.  A series that a calculator reads is a function from its     *)
(* dates to its values.                                                    *)
(***************************************************************************)
EXTENDS Integers, Sequences, FiniteSets, TLC

\* ------------------------------------------------------------------ bounds
MaxSymbols == 6       \* longest symbol list handed to fetch_multiple_symbols
MaxOps == 3           \* top-level adapter calls made by one sequential caller
MaxPoolFailures == 1  \* strategy calls the provider fails while the pool runs
MaxDate == 6          \* dates of the series handed to calculate_real_returns
MaxPDate == 11        \* dates of the series handed to calculate_p_theory
MaxRows == 3          \* rows of the series handed to make_daily
MaxDay == 4           \* days the rows of that series lie on
MaxAlignDate == 4     \* dates of the series handed to the aligning functions
MaxObservations == 3  \* observations in one answer of FRED
EarlierRequests == 8  \* requests an optimizer has made before the pool's call
MaxResearchDate == 12 \* last date asked of get_research_data

\* ------------------------------------------------------- program constants
min_request_interval == 1   \* yfinance_optimizer.py:27, 0.5 s = 1 tick
batch_size == 5             \* yfinance_optimizer.py:187
max_workers == 3            \* yfinance_optimizer.py:182
ExtraEvery == 10            \* yfinance_optimizer.py:59
ExtraSleep == 4             \* yfinance_optimizer.py:60, at least 2 s
FailSleep == 2              \* yfinance_optimizer.py:92, at least 1 s
BatchPause == 6             \* yfinance_optimizer.py:215, at least 3 s
MinCommonDates == 5         \* real_returns_analyzer.py:201
MinValidDates == 2          \* real_returns_analyzer.py:217
MinPDates == 10             \* data_handler.py:159
MinFrameRows == 10          \* data_handler.py:305

\* yfinance_optimizer.py:70-75
strategies ==
  << "_fetch_with_optimized_session", "_fetch_with_standard_method",
     "_fetch_with_download", "_fetch_with_period_method" >>

\* ------------------------------------------------------------ input domains
Data == {"p1", "p2"}                 \* contents a provider may answer with
Starts == {"2023-01-01"}
Ends == {"2023-06-30", "2023-12-31"}
CallSymbols == {1}                   \* symbols a sequential caller asks for
PoolPeriod == <<"2023-01-01", "2023-12-31">>   \* the period of the pool's call
Tasks == 0..MaxSymbols               \* 0: the caller's own thread; k: pool task of symbol k

Min(a, b) == IF a < b THEN a ELSE b

VARIABLES
  \* YFinanceOptimizer (the module-level _optimizer)
  cache, request_count, last_request_time,
  \* the values of request_count at which _rate_limit paused (line 60), in order
  pauses,
  \* one fetch_single_symbol activation per task
  pc, key, i, sleep, reg, tried, ret,
  \* fetch_multiple_symbols
  mpc, symbols, period, batch_idx, batch_results, results, msleep,
  \* MonetaryDataHandler, and where its get_yfinance_data stands
  fred_data_cache, yfinance_data_cache, hpc,
  \* CoinGeckoDataFetcher, and the module's COINGECKO_AVAILABLE
  cg_cache, cg_last_request_time, coingecko_available,
  \* the caller and the providers: the operation called last, the entry its
  \* adapter's cache held for the call's key when it was called (a set: empty
  \* when there was none), the relative start time of the latest outbound
  \* strategy call of the optimizer, the number of top-level calls made, the
  \* number of strategy calls the provider may still fail, and the contents
  \* a provider may answer with
  op, entry, last_attempt, ops, fail_budget, payloads,
  \* the calculators: where the call stands, the series handed to
  \* calculate_real_returns and its result, the series handed to
  \* calculate_p_theory and its result
  cpc, asset_prices, inflation_series, returns,
  money_supply, velocity, real_gdp, p_theory,
  \* the frame functions: where the call stands, the series handed to
  \* make_daily and its result
  fpc, x_series, final,
  \* the function that aligns, the series handed to it in their order, and
  \* the frame it builds
  aligner, data_dict, df,
  \* DebasementSignalDetector: the frame handed to it, the result of one
  \* detector, the composite signal
  frame, signals, composite,
  \* the index kinds of the two series handed to calculate_real_returns,
  \* the series objects the optimizer's cache holds and hands out, the result
  \* of fetch_asset_data
  asset_index, inflation_index, held, aligned_data,
  \* the observations FRED answers with, the series asked for, what the fetch
  \* gave back
  observations, series_id, fetched,
  \* get_research_data: what the providers answer for each series, the frame
  \* returned
  provided, research,
  \* get_trading_recommendations: the list returned
  recommendations

yfVars == <<cache, request_count, last_request_time, pauses>>
taskVars == <<pc, key, i, sleep, reg, tried, ret>>
poolVars == <<mpc, symbols, period, batch_idx, batch_results, results, msleep>>
handlerVars == <<fred_data_cache, yfinance_data_cache, hpc>>
cgVars == <<cg_cache, cg_last_request_time, coingecko_available>>
envVars == <<last_attempt, ops, fail_budget>>
callVars == <<op, entry, payloads>>
\* what no action of the optimizer or of its pool touches
calcVars == <<cpc, asset_prices, inflation_series, returns, money_supply, velocity, real_gdp, p_theory>>
dailyVars == <<x_series, final>>
alignVars == <<aligner, data_dict, df>>
signalVars == <<frame, signals, composite>>
fredVars == <<observations, series_id, fetched>>
researchVars == <<provided, research>>
effectVars == <<asset_index, inflation_index, held, aligned_data, fredVars, researchVars, recommendations>>
frameVars == <<fpc, dailyVars, alignVars, signalVars, effectVars>>
restVars == <<handlerVars, cgVars, calcVars, frameVars>>
vars == <<yfVars, taskVars, poolVars, envVars, callVars, restVars>>

\* f"{symbol}_{start}_{end}": dates hold no underscore, so the string names the triple
CacheKey(symbol, start, end) == <<symbol, start, end>>

NoKey == CacheKey(0, "", "")
Raised == <<"Exception">>     \* a call left by an exception instead of a return

\* ---------------------------------------------------------------- the clock
cg_min_request_interval == 2   \* coingecko_fetcher.py:33, 1.0 s

\* a relative stamp one tick later; it stops at the interval it is compared with
Age(stamp, interval) == IF stamp > -interval THEN stamp - 1 ELSE stamp

Tick ==
  /\ last_request_time' = Age(last_request_time, min_request_interval)
  /\ last_attempt' = Age(last_attempt, min_request_interval)
  /\ sleep' = [t \in Tasks |-> IF sleep[t] > 0 THEN sleep[t] - 1 ELSE 0]
  /\ msleep' = IF msleep > 0 THEN msleep - 1 ELSE 0
  /\ cg_last_request_time' = Age(cg_last_request_time, cg_min_request_interval)
  /\ UNCHANGED <<cache, request_count, pauses, pc, key, i, reg, tried, ret>>
  /\ UNCHANGED <<mpc, symbols, period, batch_idx, batch_results, results, ops, fail_budget>>
  /\ UNCHANGED <<handlerVars, cg_cache, coingecko_available, callVars, calcVars, frameVars>>

\* ------------------------------------------------------ fetch_single_symbol
\* entry and cache lookup
FetchSingleSymbol(t, symbol, start, end) ==
  LET cache_key == CacheKey(symbol, start, end) IN
  /\ key' = [key EXCEPT ![t] = cache_key]
  /\ tried' = [tried EXCEPT ![t] = <<>>]
  /\ sleep' = [sleep EXCEPT ![t] = 0]
  /\ IF cache_key \in DOMAIN cache
       THEN /\ ret' = [ret EXCEPT ![t] = cache[cache_key]]
            /\ pc' = [pc EXCEPT ![t] = "returned"]
            /\ i' = [i EXCEPT ![t] = 0]
       ELSE /\ ret' = [ret EXCEPT ![t] = <<>>]
            /\ pc' = [pc EXCEPT ![t] = "rate_limit"]
            /\ i' = [i EXCEPT ![t] = 1]
  /\ UNCHANGED <<cache, request_count, pauses, last_request_time, reg, last_attempt>>

\* _rate_limit, lines 48-53: read the clock and last_request_time, sleep the rest
SleepTime(time_since_last) ==
  IF time_since_last < min_request_interval
    THEN min_request_interval - time_since_last ELSE 0

RateLimitRead(t) ==
  /\ pc[t] = "rate_limit"
  /\ sleep[t] = 0        \* the sleep after a failed strategy is over
  /\ sleep' = [sleep EXCEPT ![t] = SleepTime(0 - last_request_time)]
  /\ pc' = [pc EXCEPT ![t] = "stamp"]
  /\ UNCHANGED <<yfVars, key, i, reg, tried, ret, poolVars, envVars>>

\* line 55 and the read of line 56 (self.request_count += 1 reads, then writes)
RateLimitStamp(t) ==
  /\ pc[t] = "stamp"
  /\ sleep[t] = 0
  /\ last_request_time' = 0
  /\ reg' = [reg EXCEPT ![t] = request_count]
  /\ pc' = [pc EXCEPT ![t] = "store"]
  /\ UNCHANGED <<cache, request_count, pauses, key, i, sleep, tried, ret, poolVars, envVars>>

\* the write of line 56
RateLimitStore(t) ==
  /\ pc[t] = "store"
  /\ request_count' = reg[t] + 1
  /\ reg' = [reg EXCEPT ![t] = 0]
  /\ pc' = [pc EXCEPT ![t] = "check"]
  /\ UNCHANGED <<cache, last_request_time, pauses, key, i, sleep, tried, ret, poolVars, envVars>>

\* lines 59-60
ExtraDelay(count) == IF count % ExtraEvery = 0 THEN ExtraSleep ELSE 0

\* line 82: the strategy is called, the outbound request starts
StartRequest(t) ==
  /\ tried' = [tried EXCEPT ![t] = Append(@, [strategy |-> strategies[i[t]], outcome |-> "pending"])]
  /\ last_attempt' = 0
  /\ pc' = [pc EXCEPT ![t] = "strategy"]

\* lines 59-61 and, when no extra delay is due, the call of line 82
RateLimitCheck(t) ==
  /\ pc[t] = "check"
  /\ IF ExtraDelay(request_count) = 0
       THEN StartRequest(t) /\ UNCHANGED <<sleep, pauses>>
       ELSE /\ sleep' = [sleep EXCEPT ![t] = ExtraDelay(request_count)]
            /\ pauses' = Append(pauses, request_count)
            /\ pc' = [pc EXCEPT ![t] = "call"]
            /\ UNCHANGED <<tried, last_attempt>>
  /\ UNCHANGED <<cache, request_count, last_request_time, key, i, reg, ret, poolVars, ops, fail_budget>>

\* line 82 after the extra delay
StrategyCall(t) ==
  /\ pc[t] = "call"
  /\ sleep[t] = 0
  /\ StartRequest(t)
  /\ UNCHANGED <<yfVars, key, i, sleep, reg, ret, poolVars, ops, fail_budget>>

\* What a strategy can answer: a non-empty series, the empty series, or an
\* exception; _fetch_with_period_method catches its own (lines 144-177).
StrategyOutcomes(n) ==
  IF strategies[n] = "_fetch_with_period_method"
    THEN payloads \cup {"empty"} ELSE payloads \cup {"empty", "raise"}

\* the loop goes on after a non-empty answer (seeded fault)
AfterStrategyKeepsTrying(n, out) ==
  IF n < Len(strategies)
    THEN [to |-> "rate_limit", ret |-> IF out \in Data THEN <<out>> ELSE << >>,
          store |-> out \in Data, nap |-> IF out = "raise" THEN FailSleep ELSE 0]
  ELSE [to |-> "returned", ret |-> IF out \in Data THEN <<out>> ELSE << >>,
        store |-> out \in Data, nap |-> 0]

\* no handler around the call of the strategy (seeded fault)
AfterStrategyNoHandler(n, out) ==
  IF out \in Data
    THEN [to |-> "returned", ret |-> <<out>>, store |-> TRUE, nap |-> 0]
  ELSE IF out = "raise"
    THEN [to |-> "returned", ret |-> Raised, store |-> FALSE, nap |-> 0]
  ELSE IF n < Len(strategies)
    THEN [to |-> "rate_limit", ret |-> << >>, store |-> FALSE, nap |-> 0]
  ELSE [to |-> "returned", ret |-> << >>, store |-> FALSE, nap |-> 0]

\* lines 84-95: what the loop does with the answer of strategy n
AfterStrategy(n, out) ==
  IF out \in Data
    THEN [to |-> "returned", ret |-> <<out>>, store |-> TRUE, nap |-> 0]
  ELSE IF n < Len(strategies)
    THEN [to |-> "rate_limit", ret |-> <<>>, store |-> FALSE,
          nap |-> IF out = "raise" THEN FailSleep ELSE 0]
  ELSE [to |-> "returned", ret |-> <<>>, store |-> FALSE, nap |-> 0]

\* the failed strategy is tried again (seeded fault)
SameStrategy(n) == n

\* line 77: the loop moves on to the next strategy of the list
NextStrategy(n) == n + 1

StrategyReturn(t) ==
  /\ pc[t] = "strategy"
  /\ \E out \in StrategyOutcomes(i[t]) :
       LET after == AfterStrategy(i[t], out) IN
       /\ out \notin Data => fail_budget > 0
       /\ fail_budget' = IF out \in Data THEN fail_budget ELSE fail_budget - 1
       /\ tried' = [tried EXCEPT ![t][Len(tried[t])].outcome = out]
       /\ cache' = IF after.store THEN (key[t] :> after.ret) @@ cache ELSE cache
       /\ ret' = [ret EXCEPT ![t] = after.ret]
       /\ sleep' = [sleep EXCEPT ![t] = after.nap]
       /\ i' = [i EXCEPT ![t] = IF after.to = "rate_limit" THEN NextStrategy(i[t]) ELSE i[t]]
       /\ pc' = [pc EXCEPT ![t] = after.to]
  /\ UNCHANGED <<request_count, pauses, last_request_time, key, reg, poolVars, last_attempt, ops>>

FetchStep(t) ==
  /\ \/ RateLimitRead(t)
     \/ RateLimitStamp(t)
     \/ RateLimitStore(t)
     \/ RateLimitCheck(t)
     \/ StrategyCall(t)
     \/ StrategyReturn(t)
  /\ UNCHANGED <<callVars, restVars>>

\* --------------------------------------------------- fetch_multiple_symbols
\* line 188: the batches of the list 1..n, as lists of symbols
SymbolBatches(n) ==
  [b \in 1..((n + batch_size - 1) \div batch_size) |->
     [j \in 1..Min(batch_size, n - (b - 1) * batch_size) |-> (b - 1) * batch_size + j]]

Batch == SymbolBatches(symbols)[batch_idx + 1]

\* a pool as wide as its batch (seeded fault)
PoolSizeOfBatch(batch) == Len(batch)

\* line 196
PoolSize(batch) == Min(max_workers, Len(batch))

Running == {t \in 1..MaxSymbols :
              pc[t] \in {"rate_limit", "stamp", "store", "check", "call", "strategy"}}

\* lines 181-190: the call, up to the first batch
FetchMultipleSymbols ==
  /\ mpc = "idle"
  /\ \E n \in 0..MaxSymbols :
       /\ symbols' = n
       /\ mpc' = IF n = 0 THEN "done" ELSE "submit"
  /\ period' = PoolPeriod
  /\ batch_idx' = 0
  /\ batch_results' = << >>
  /\ results' = << >>
  /\ ops' = ops + 1
  /\ op' = "fetch_multiple_symbols"
  /\ UNCHANGED <<yfVars, taskVars, msleep, last_attempt, fail_budget, entry, payloads, restVars>>

\* lines 196-200: the executor of the batch, and executor.submit of each of
\* its symbols.  A worker cannot tell how much of the batch is queued behind
\* the item it takes, so the submissions are one step.
Submit ==
  /\ mpc = "submit"
  /\ pc' = [t \in Tasks |-> IF \E j \in 1..Len(Batch) : Batch[j] = t THEN "queued" ELSE pc[t]]
  /\ mpc' = "collect"
  /\ UNCHANGED <<yfVars, key, i, sleep, reg, tried, ret>>
  /\ UNCHANGED <<symbols, period, batch_idx, batch_results, results, msleep, envVars, callVars, restVars>>

\* a worker thread of the executor takes the oldest queued work item
TaskStart(t) ==
  /\ t \in 1..MaxSymbols
  /\ pc[t] = "queued"
  /\ \A u \in 1..MaxSymbols : pc[u] = "queued" => t <= u
  /\ Cardinality(Running) < PoolSize(Batch)
  /\ FetchSingleSymbol(t, t, period[1], period[2])
  /\ UNCHANGED <<poolVars, ops, fail_budget, callVars, restVars>>

\* lines 202-209: as_completed hands over a finished future
Collect ==
  /\ mpc = "collect"
  /\ \E t \in 1..MaxSymbols :
       /\ pc[t] = "returned"
       /\ batch_results' = IF ret[t] # Raised /\ ret[t] # <<>>
                             THEN (t :> ret[t]) @@ batch_results ELSE batch_results
       \* the activation is over and its locals are gone
       /\ pc' = [pc EXCEPT ![t] = "collected"]
       /\ key' = [key EXCEPT ![t] = NoKey]
       /\ i' = [i EXCEPT ![t] = 0]
       /\ tried' = [tried EXCEPT ![t] = << >>]
       /\ ret' = [ret EXCEPT ![t] = << >>]
  /\ UNCHANGED <<yfVars, sleep, reg>>
  /\ UNCHANGED <<mpc, symbols, period, batch_idx, results, msleep, envVars, callVars, restVars>>

\* the loop over the futures left at the first result (seeded fault)
FirstCollected == \E j \in 1..Len(Batch) : pc[Batch[j]] = "collected"

AllCollected == \A j \in 1..Len(Batch) : pc[Batch[j]] = "collected"

\* lines 211-219: the batch is over; pause unless it was the last one
EndBatch ==
  /\ mpc = "collect"
  /\ AllCollected
  /\ results' = batch_results @@ results
  /\ IF batch_idx < Len(SymbolBatches(symbols)) - 1
       THEN /\ msleep' = BatchPause
            /\ mpc' = "pause"
       ELSE /\ msleep' = 0
            /\ mpc' = "done"
  /\ UNCHANGED <<yfVars, taskVars, symbols, period, batch_idx, batch_results>>
  /\ UNCHANGED <<envVars, callVars, restVars>>

\* line 190: the loop goes on with the next batch
NextBatch ==
  /\ mpc = "pause"
  /\ msleep = 0
  /\ batch_idx' = batch_idx + 1
  /\ batch_results' = << >>
  /\ mpc' = "submit"
  /\ UNCHANGED <<yfVars, taskVars, symbols, period, results, msleep, envVars, callVars, restVars>>

\* ------------------------------------------------------ a sequential caller
\* The caller's thread is task 0; an operation that runs in one step leaves
\* its key, its log of attempts and its result in the frame of task 0.
CallerFree == pc[0] \in {"idle", "returned"} /\ hpc # "waiting" /\ ops < MaxOps

CacheEntry(c, k) == IF k \in DOMAIN c THEN {c[k]} ELSE {}

Frame(k, log, result) ==
  /\ key' = [key EXCEPT ![0] = k]
  /\ tried' = [tried EXCEPT ![0] = log]
  /\ ret' = [ret EXCEPT ![0] = result]
  /\ pc' = [pc EXCEPT ![0] = "returned"]
  /\ i' = [i EXCEPT ![0] = 0]
  /\ UNCHANGED <<sleep, reg>>

\* the clock after an operation that slept n ticks inside one step
Max(a, b) == IF a > b THEN a ELSE b

Elapsed(stamp, interval, n) == Max(stamp - n, 0 - interval)

\* yfinance_optimizer.py, fetch_symbol_optimized
FetchSymbolOptimized ==
  /\ CallerFree
  /\ \E symbol \in CallSymbols, start \in Starts, end \in Ends :
       /\ FetchSingleSymbol(0, symbol, start, end)
       /\ entry' = CacheEntry(cache, CacheKey(symbol, start, end))
  /\ op' = "fetch_single_symbol"
  /\ ops' = ops + 1
  /\ UNCHANGED <<poolVars, fail_budget, payloads, restVars>>

\* yfinance_optimizer.py, clear_cache
ClearCache ==
  /\ CallerFree
  /\ cache' = << >>
  /\ Frame(NoKey, << >>, << >>)
  /\ op' = "clear_cache"
  /\ entry' = {}
  /\ ops' = ops + 1
  /\ UNCHANGED <<request_count, pauses, last_request_time, poolVars, last_attempt, fail_budget, payloads, restVars>>

\* data_handler.py, get_yfinance_data, lines 130-137
GetYfinanceData ==
  /\ CallerFree
  /\ \E symbol \in CallSymbols, start \in Starts, end \in Ends :
       LET cache_key == CacheKey(symbol, start, end) IN
       /\ entry' = CacheEntry(yfinance_data_cache, cache_key)
       /\ IF cache_key \in DOMAIN yfinance_data_cache
            THEN /\ Frame(cache_key, << >>, yfinance_data_cache[cache_key])
                 /\ hpc' = "done"
                 /\ UNCHANGED <<yfVars, last_attempt>>
            ELSE /\ FetchSingleSymbol(0, symbol, start, end)
                 /\ hpc' = "waiting"
  /\ op' = "get_yfinance_data"
  /\ ops' = ops + 1
  /\ UNCHANGED <<poolVars, fail_budget, payloads, fred_data_cache, yfinance_data_cache, cgVars, calcVars, frameVars>>

\* lines 139-150: fetch_symbol_optimized is back
GetYfinanceDataReturn ==
  /\ hpc = "waiting"
  /\ pc[0] = "returned"
  /\ hpc' = "done"
  /\ ret' = [ret EXCEPT ![0] = IF ret[0] = Raised THEN << >> ELSE ret[0]]
  /\ yfinance_data_cache' = IF ret[0] # Raised /\ ret[0] # << >>
                              THEN (key[0] :> ret[0]) @@ yfinance_data_cache
                              ELSE yfinance_data_cache
  /\ UNCHANGED <<yfVars, pc, key, i, sleep, reg, tried, poolVars, envVars, callVars, fred_data_cache, cgVars, calcVars, frameVars>>

\* data_handler.py, get_fred_data.  o[n] is the answer of provider n: a
\* non-empty series, "empty", "allnan" (rows, none of them left by dropna and
\* the date filter), "raise" (the request fails with an exception) or
\* "missing" (the package or its API key is missing: an exception before any
\* request is made).
fred_strategies == << "fredapi", "pandas_datareader", "http" >>

FredOutcomes(n) ==
  IF fred_strategies[n] = "http"
    THEN payloads \cup {"empty", "raise", "missing"}     \* lines 94-108: no rows, no series
    ELSE payloads \cup {"empty", "allnan", "raise", "missing"}

\* The answers of the three providers; a provider that is not asked because
\* the one before it did not raise has no answer to choose ("empty").
FredAnswers ==
  {o \in FredOutcomes(1) \X FredOutcomes(2) \X FredOutcomes(3) :
     /\ o[1] \notin {"raise", "missing"} => o[2] = "empty"
     /\ o[2] \notin {"raise", "missing"} => o[3] = "empty"}

Attempt(name, out) == [strategy |-> name, outcome |-> out]

\* lines 79-119, reached from the handler of line 75
FredHttp(c, k, o, log) ==
  LET log3 == Append(log, Attempt("http", o[3])) IN
  IF o[3] \in payloads
    THEN [ret |-> <<o[3]>>, cache |-> (k :> <<o[3]>>) @@ c, tried |-> log3]
    ELSE [ret |-> << >>, cache |-> c, tried |-> log3]           \* lines 121-122

\* lines 51-76, reached from the handler of line 47
FredDatareader(c, k, o, log) ==
  LET log2 == Append(log, Attempt("pandas_datareader", o[2])) IN
  IF k \in DOMAIN c
    THEN [ret |-> c[k], cache |-> c, tried |-> log]             \* lines 57-58
  ELSE IF o[2] \in payloads
    THEN [ret |-> <<o[2]>>, cache |-> (k :> <<o[2]>>) @@ c, tried |-> log2]
  ELSE IF o[2] = "allnan"
    THEN [ret |-> << >>, cache |-> (k :> << >>) @@ c, tried |-> log2]
  ELSE IF o[2] = "empty"
    THEN [ret |-> << >>, cache |-> c, tried |-> log2]           \* lines 121-122
  ELSE FredHttp(c, k, o, log2)

\* lines 29-126
FredFetch(c, k, o) ==
  LET log1 == << Attempt("fredapi", o[1]) >> IN
  IF o[1] \in payloads
    THEN [ret |-> <<o[1]>>, cache |-> (k :> <<o[1]>>) @@ c, tried |-> log1]
  ELSE IF o[1] = "allnan"
    THEN [ret |-> << >>, cache |-> (k :> << >>) @@ c, tried |-> log1]
  ELSE IF o[1] = "empty"
    THEN [ret |-> << >>, cache |-> c, tried |-> log1]           \* lines 121-122
  ELSE FredDatareader(c, k, o, log1)

GetFredData ==
  /\ CallerFree
  /\ \E symbol \in CallSymbols, start \in Starts, end \in Ends :
     \E o \in FredAnswers :
       LET cache_key == CacheKey(symbol, start, end)
           done == FredFetch(fred_data_cache, cache_key, o) IN
       /\ entry' = CacheEntry(fred_data_cache, cache_key)
       /\ fred_data_cache' = done.cache
       /\ Frame(cache_key, done.tried, done.ret)
  /\ op' = "get_fred_data"
  /\ ops' = ops + 1
  /\ UNCHANGED <<yfVars, poolVars, last_attempt, fail_budget, payloads, yfinance_data_cache, hpc, cgVars, calcVars, frameVars>>

\* coingecko_fetcher.py, get_price_history.  The provider answers with prices
\* inside the period, with prices that all lie outside it ("outofrange"), with
\* no prices ("noprices"), or the call raises.
PriceOutcomes == payloads \cup {"outofrange", "noprices", "raise"}

\* lines 84-164
PriceHistory(c, k, available, out) ==
  LET log == << Attempt("get_coin_market_chart_by_id", out) >> IN
  IF ~available
    THEN [ret |-> << >>, cache |-> c, tried |-> << >>]            \* lines 84-86
  ELSE IF k \in DOMAIN c
    THEN [ret |-> c[k], cache |-> c, tried |-> << >>]             \* lines 90-92
  ELSE IF out \in payloads
    THEN [ret |-> <<out>>, cache |-> (k :> <<out>>) @@ c, tried |-> log]
  ELSE IF out = "outofrange"
    THEN [ret |-> << >>, cache |-> (k :> << >>) @@ c, tried |-> log]   \* lines 148-155
  ELSE [ret |-> << >>, cache |-> c, tried |-> log]                \* lines 156-164

\* lines 45-54
CgSleepTime(time_since_last) ==
  IF time_since_last < cg_min_request_interval
    THEN cg_min_request_interval - time_since_last ELSE 0

GetPriceHistory ==
  /\ CallerFree
  /\ \E symbol \in CallSymbols, start \in Starts, end \in Ends, out \in PriceOutcomes :
       LET cache_key == CacheKey(symbol, start, end)
           done == PriceHistory(cg_cache, cache_key, coingecko_available, out)
           slept == IF done.tried = << >> THEN 0 ELSE CgSleepTime(0 - cg_last_request_time) IN
       /\ entry' = CacheEntry(cg_cache, cache_key)
       /\ cg_cache' = done.cache
       /\ cg_last_request_time' = IF done.tried = << >> THEN cg_last_request_time ELSE 0
       /\ last_request_time' = Elapsed(last_request_time, min_request_interval, slept)
       /\ last_attempt' = Elapsed(last_attempt, min_request_interval, slept)
       /\ Frame(cache_key, done.tried, done.ret)
  /\ op' = "get_price_history"
  /\ ops' = ops + 1
  /\ UNCHANGED <<cache, request_count, pauses, poolVars, fail_budget, payloads, handlerVars, coingecko_available, calcVars, frameVars>>

\* real_returns_analyzer.py, _fetch_single_asset_robust, lines 88-106
robust_strategies == << "_fetch_with_session", "_fetch_with_download", "_fetch_with_period" >>

RobustOutcomes(n) ==
  IF robust_strategies[n] = "_fetch_with_period"
    THEN payloads \cup {"empty"} ELSE payloads \cup {"empty", "raise"}

\* a strategy behind one that answered with data is not asked: no answer to choose
RobustAnswers ==
  {o \in RobustOutcomes(1) \X RobustOutcomes(2) \X RobustOutcomes(3) :
     /\ o[1] \in payloads => o[2] = "empty"
     /\ (o[1] \in payloads \/ o[2] \in payloads) => o[3] = "empty"}

RobustSleep == 2     \* line 104, at least 1 s

RECURSIVE RobustFrom(_, _)
RobustFrom(n, o) ==
  IF n > Len(robust_strategies)
    THEN [ret |-> << >>, tried |-> << >>, slept |-> 0]                       \* line 106
  ELSE IF o[n] \in payloads
    THEN [ret |-> <<o[n]>>, tried |-> << Attempt(robust_strategies[n], o[n]) >>, slept |-> 0]
  ELSE LET rest == RobustFrom(n + 1, o) IN
       [ret |-> rest.ret,
        tried |-> << Attempt(robust_strategies[n], o[n]) >> \o rest.tried,
        slept |-> rest.slept + (IF o[n] = "raise" /\ n < Len(robust_strategies)
                                  THEN RobustSleep ELSE 0)]

FetchSingleAssetRobust ==
  /\ CallerFree
  /\ \E symbol \in CallSymbols, start \in Starts, end \in Ends :
     \E o \in RobustAnswers :
       LET done == RobustFrom(1, o) IN
       /\ Frame(CacheKey(symbol, start, end), done.tried, done.ret)
       /\ last_request_time' = Elapsed(last_request_time, min_request_interval, done.slept)
       /\ last_attempt' = Elapsed(last_attempt, min_request_interval, done.slept)
       /\ cg_last_request_time' = Elapsed(cg_last_request_time, cg_min_request_interval, done.slept)
  /\ entry' = {}
  /\ op' = "_fetch_single_asset_robust"
  /\ ops' = ops + 1
  /\ UNCHANGED <<cache, request_count, pauses, poolVars, fail_budget, payloads, handlerVars, cg_cache, coingecko_available, calcVars, frameVars>>

\* ---------------------------------------------------------- the calculators
\* A series is a function from its dates to its values; NaN is a value.
NaN == 0

Dates == 1..MaxDate

\* the series over the dates D that is null on N and holds d at date d
SeriesOn(D, N) == [d \in D |-> IF d \in N THEN NaN ELSE d]

SeriesSet == {SeriesOn(D, N \cap D) : D \in SUBSET Dates, N \in SUBSET Dates}

\* pandas: Series.reindex, ffill, bfill
Reindex(s, dates) == [d \in dates |-> IF d \in DOMAIN s THEN s[d] ELSE NaN]

Known(s) == {d \in DOMAIN s : s[d] # NaN}

Greatest(S) == CHOOSE d \in S : \A e \in S : e <= d

Least(S) == CHOOSE d \in S : \A e \in S : d <= e

Ffill(s) ==
  [d \in DOMAIN s |->
     LET before == {e \in Known(s) : e <= d} IN
     IF before = {} THEN NaN ELSE s[Greatest(before)]]

Bfill(s) ==
  [d \in DOMAIN s |->
     LET after == {e \in Known(s) : e >= d} IN
     IF after = {} THEN NaN ELSE s[Least(after)]]

Restrict(s, dates) == [d \in dates |-> s[d]]

\* Exact arithmetic on the values the calculators compute: a value is a
\* fraction <<numerator, denominator>>.
Abs(x) == IF x < 0 THEN 0 - x ELSE x

RECURSIVE GCD(_, _)
GCD(a, b) == IF b = 0 THEN a ELSE GCD(b, a % b)

\* a fraction in lowest terms, its denominator positive
Lowest(v) ==
  LET g == GCD(Abs(v[1]), Abs(v[2]))
      sign == IF v[2] < 0 THEN 0 - 1 ELSE 1 IN
  << sign * (v[1] \div g), sign * (v[2] \div g) >>

FracDiv(a, b) == Lowest(<< Lowest(a)[1] * Lowest(b)[2], Lowest(a)[2] * Lowest(b)[1] >>)

FracTimes(a, n) == Lowest(<< Lowest(a)[1] * n, Lowest(a)[2] >>)

FracAdd(a, b) ==
  LET g == GCD(a[2], b[2]) IN
  Lowest(<< a[1] * (b[2] \div g) + b[1] * (a[2] \div g), (a[2] \div g) * b[2] >>)

FracSub(a, b) == FracAdd(a, << 0 - b[1], b[2] >>)

FracMul(a, b) == Lowest(<< a[1] * b[1], a[2] * b[2] >>)

Zero == << 0, 1 >>

One == << 1, 1 >>

Before(d, D) == {e \in D : e < d}

\* pandas pct_change().fillna(0), lines 222-223 and 512: the change from the
\* previous row after a forward fill of the holes; 0 at the first row and
\* wherever no previous value is known
PctChange(s) ==
  LET f == Ffill(s) IN
  [d \in DOMAIN s |->
     IF Before(d, DOMAIN s) = {} THEN Zero
     ELSE LET p == Greatest(Before(d, DOMAIN s)) IN
          IF f[p] = NaN \/ f[d] = NaN THEN Zero
          ELSE Lowest(<< f[d] - f[p], f[p] >>)]

\* adds the inflation return (seeded fault)
Plus(a, b) == [d \in DOMAIN a |-> FracAdd(a[d], b[d])]

\* line 226, line 515: the difference of two return series, row by row
Minus(a, b) == [d \in DOMAIN a |-> FracSub(a[d], b[d])]

RECURSIVE ProdTo(_, _)
ProdTo(r, d) ==
  IF Before(d, DOMAIN r) = {} THEN FracAdd(One, r[d])
  ELSE FracMul(ProdTo(r, Greatest(Before(d, DOMAIN r))), FracAdd(One, r[d]))

\* (1 + r).cumprod(), lines 229-230 and 518-519
CumProd(r) == [d \in DOMAIN r |-> ProdTo(r, d)]

RECURSIVE SumOver(_, _)
SumOver(r, D) ==
  IF D = {} THEN Zero
  ELSE LET d == Greatest(D) IN FracAdd(SumOver(r, D \ {d}), r[d])

\* the square of pandas Series.std(): the sample variance (ddof = 1) of a
\* series of more than one row
Variance(r) ==
  LET n == Cardinality(DOMAIN r)
      mean == FracDiv(SumOver(r, DOMAIN r), << n, 1 >>)
      sq == [d \in DOMAIN r |-> FracMul(FracSub(r[d], mean), FracSub(r[d], mean))]
  IN FracDiv(SumOver(sq, DOMAIN r), << n - 1, 1 >>)

TradingDays == 252

\* lines 243-244 and 532-533: the square of the annualized volatility,
\* std() * sqrt(252) if the series has more than one row, else 0
VolSquared(r) ==
  IF Cardinality(DOMAIN r) > 1 THEN FracTimes(Variance(r), TradingDays) ELSE Zero

\* lines 233-240 and 522-529: (1 + total) ** (1 / years) - 1 with
\* years = len / 252, kept as the growth and the exponent it is raised to
Annualized(cumulative) ==
  [growth |-> cumulative[Greatest(DOMAIN cumulative)],
   exponent |-> << TradingDays, Cardinality(DOMAIN cumulative) >>]

\* divides whatever the volatility is (seeded fault)
SharpeUnguarded(annualized_real, real_vol_sq) ==
  << "ratio", annualized_real, real_vol_sq >>

\* lines 247 and 536: annualized_real / real_vol if real_vol > 0 else 0; the
\* ratio is kept as its numerator and the square of its denominator
Sharpe(annualized_real, real_vol_sq) ==
  IF real_vol_sq[1] > 0 THEN << "ratio", annualized_real, real_vol_sq >>
  ELSE << "zero" >>

\* lines 229-269 and 518-558: the columns of the frame that both paths build
\* from the nominal returns and the inflation returns
Columns(asset_returns, inflation_returns) ==
  LET real_returns == Minus(asset_returns, inflation_returns)
      cumulative_real == CumProd(real_returns)
      annualized_real == Annualized(cumulative_real)
      real_vol_sq == VolSquared(real_returns) IN
  [nominal_returns |-> asset_returns,
   inflation_returns |-> inflation_returns,
   real_returns |-> real_returns,
   nominal_cumulative |-> CumProd(asset_returns),
   real_cumulative |-> cumulative_real,
   annualized_real |-> annualized_real,
   real_vol_sq |-> real_vol_sq,
   real_sharpe |-> Sharpe(annualized_real, real_vol_sq)]

NoColumns ==
  [nominal_returns |-> << >>, inflation_returns |-> << >>, real_returns |-> << >>,
   nominal_cumulative |-> << >>, real_cumulative |-> << >>,
   annualized_real |-> << >>, real_vol_sq |-> Zero, real_sharpe |-> << >>]

\* inflation_series.pct_change().dropna(), line 500: the changes at the rows
\* after the first known value
Changes(inflation) ==
  LET f == Ffill(inflation)
      rows == {d \in DOMAIN inflation :
                 \E p \in Before(d, DOMAIN inflation) : f[p] # NaN} IN
  Restrict(PctChange(inflation), rows)

\* The draws of np.random.normal(avg, vol, n), lines 499-509, as outcomes.
\* The defaults (a positive mean and deviation, seed 42) give a positive first
\* draw; they apply to a series of at most one row or without changes. Changes
\* that are all 0, two or more of them, have mean 0 and deviation 0, and
\* every draw is 0. Any other changes give draws that are not 0, of either
\* sign.
Draw == << 1, 2 >>

Opposite(v) == << 0 - v[1], v[2] >>

DrawProfiles(asset, inflation) ==
  LET profile(first) ==
        [d \in DOMAIN asset |->
           IF Before(d, DOMAIN asset) = {} THEN first ELSE Opposite(first)]
      changes == Changes(inflation) IN
  IF Cardinality(DOMAIN inflation) <= 1 \/ DOMAIN changes = {}
    THEN {profile(Draw)}
  ELSE IF Cardinality(DOMAIN changes) > 1 /\ \A d \in DOMAIN changes : changes[d] = Zero
    THEN {profile(Zero)}
  ELSE {profile(Draw), profile(Opposite(Draw))}

inflation_name == "CPI"

NoReturns == [outcome |-> "none", dates |-> {}, measure |-> "", synthetic |-> FALSE,
              inflation |-> << >>, stats |-> "none", columns |-> NoColumns]

\* real_returns_analyzer.py, _create_synthetic_alignment, lines 488-558: the
\* asset's own dates, inflation returns drawn from the statistics of the
\* inflation series when it has more than one point, else from the defaults
CreateSyntheticAlignment(asset, inflation, synthetic_inflation_returns) ==
  [outcome |-> "returned", dates |-> DOMAIN asset,
   measure |-> inflation_name, synthetic |-> TRUE, inflation |-> << >>,
   stats |-> IF Cardinality(DOMAIN inflation) > 1 THEN "series" ELSE "defaults",
   columns |-> Columns(PctChange(asset), synthetic_inflation_returns)]

\* an off-by-one threshold (seeded fault)
TooFewCommonInclusive(common_dates) == Cardinality(common_dates) <= MinCommonDates

\* line 201
TooFewCommon(common_dates) == Cardinality(common_dates) < MinCommonDates

\* lines 177-269; the log lines 197-198 read index[0] of both series
RealReturns(asset, inflation, draws) ==
  LET common_dates == DOMAIN asset \cap DOMAIN inflation
      asset_aligned == Bfill(Ffill(Reindex(asset, common_dates)))
      inflation_aligned == Bfill(Ffill(Reindex(inflation, common_dates)))
      valid == {d \in common_dates : asset_aligned[d] # NaN /\ inflation_aligned[d] # NaN}
  IN
  IF DOMAIN asset = {} \/ DOMAIN inflation = {}
    THEN [NoReturns EXCEPT !.outcome = "IndexError"]
  ELSE IF TooFewCommon(common_dates)
    THEN CreateSyntheticAlignment(asset, inflation, draws)
  ELSE IF Cardinality(valid) < MinValidDates
    THEN CreateSyntheticAlignment(asset, inflation, draws)
  ELSE [outcome |-> "returned", dates |-> valid,
        measure |-> inflation_name, synthetic |-> FALSE,
        inflation |-> Restrict(inflation_aligned, valid), stats |-> "none",
        columns |-> Columns(PctChange(Restrict(asset_aligned, valid)),
                            PctChange(Restrict(inflation_aligned, valid)))]

\* The kinds of index a series object may carry: a DatetimeIndex without a
\* timezone, a DatetimeIndex with one, an index of date strings.
IndexKinds == {"naive", "aware", "text"}

\* lines 182-185 and 188-191 (real_returns_analyzer.py), lines 58-63 of
\* fetch_asset_data, lines 15-16 of make_daily: the index ASSIGNED to the
\* object, pd.to_datetime of a non-datetime index and tz_localize(None) of a
\* timezone-aware one
Localized(kind) == "naive"

\* lines 181-191 assign the converted index to the two objects the caller
\* handed in, before anything is computed from them
CalculateRealReturns ==
  /\ cpc = "real_returns"
  /\ asset_index' = Localized(asset_index)
  /\ inflation_index' = Localized(inflation_index)
  /\ \E draws \in DrawProfiles(asset_prices, inflation_series) :
       returns' = RealReturns(asset_prices, inflation_series, draws)
  /\ cpc' = "done"
  /\ UNCHANGED <<asset_prices, inflation_series, money_supply, velocity, real_gdp, p_theory>>
  /\ UNCHANGED <<yfVars, taskVars, poolVars, envVars, callVars, handlerVars, cgVars>>
  /\ UNCHANGED <<fpc, dailyVars, alignVars, signalVars, held, aligned_data, fredVars>>
  /\ UNCHANGED <<researchVars, recommendations>>

\* The inputs of calculate_p_theory: the dates lo..hi without the date hole,
\* holding level + d at date d.
PDates == 1..MaxPDate

PSeries(lo, hi, hole, level) == [d \in (lo..hi) \ {hole} |-> level + d]

PSeriesSet(levels) ==
  {PSeries(lo, hi, hole, level) :
     lo \in 1..3, hi \in (MaxPDate - 2)..MaxPDate, hole \in {0, 6}, level \in levels}
  \cup {<< >>}

\* the series of n dates that holds first at date 1 and rest after it
ExampleSeries(n, first, rest) == [d \in 1..n |-> IF d = 1 THEN first ELSE rest]

PExamples(first, rest) == {ExampleSeries(n, first, rest) : n \in {2, MinPDates}}

\* an off-by-one threshold (seeded fault)
TooFewPDatesInclusive(common_dates) == Cardinality(common_dates) <= MinPDates

\* data_handler.py, line 159
TooFewPDates(common_dates) == Cardinality(common_dates) < MinPDates

\* the raw P = MV/Q returned without the normalisation (seeded fault)
PTheoryUnnormalized(M0, V0, Q0) ==
  LET common_dates == (DOMAIN M0 \cap DOMAIN V0) \cap DOMAIN Q0 IN
  IF TooFewPDates(common_dates)
    THEN << >>
    ELSE [d \in common_dates |-> << M0[d] * V0[d], Q0[d] >>]

\* normalised to the last value instead of the first (seeded fault)
PTheoryLastBase(M0, V0, Q0) ==
  LET common_dates == (DOMAIN M0 \cap DOMAIN V0) \cap DOMAIN Q0
      last == Greatest(common_dates) IN
  IF TooFewPDates(common_dates)
    THEN << >>
    ELSE [d \in common_dates |->
            << (M0[d] * V0[d]) * Q0[last] * 100, Q0[d] * (M0[last] * V0[last]) >>]

\* lines 152-179; a value is the fraction <<numerator, denominator>>
PTheory(M0, V0, Q0) ==
  LET common_dates == (DOMAIN M0 \cap DOMAIN V0) \cap DOMAIN Q0
      M == Ffill(Reindex(M0, common_dates))
      V == Ffill(Reindex(V0, common_dates))
      Q == Ffill(Reindex(Q0, common_dates))
      first == Least(common_dates)
  IN
  IF TooFewPDates(common_dates)
    THEN << >>
    ELSE [d \in common_dates |->
            << (M[d] * V[d]) * Q[first] * 100, Q[d] * (M[first] * V[first]) >>]

CalculatePTheory ==
  /\ cpc = "p_theory"
  /\ p_theory' = PTheory(money_supply, velocity, real_gdp)
  /\ cpc' = "done"
  /\ UNCHANGED <<asset_prices, inflation_series, returns, money_supply, velocity, real_gdp>>
  /\ UNCHANGED <<yfVars, taskVars, poolVars, envVars, callVars, handlerVars, cgVars, frameVars>>

\* ------------------------------------------------------------ specifications
\* ------------------------------------------------------------ helpingfunctions
\* The series handed to make_daily: rows <<date, value>> in the order given,
\* dates repeated or out of order, and whether its index holds datetimes
\* already or labels that pd.to_datetime reads as these dates.
Days == 1..MaxDay

Values == {NaN, 10, 12}

RowSeqs == UNION {[1..n -> Days \X Values] : n \in 0..MaxRows}

\* line 18, x.index.duplicated(keep='last'): a row is dropped when its date
\* comes again later (seeded fault)
KeptLast(rows) ==
  {k \in 1..Len(rows) : \A j \in (k + 1)..Len(rows) : rows[j][1] # rows[k][1]}

\* line 18, ~x.index.duplicated(keep='first'): the positions of the rows whose
\* date no earlier row holds
Kept(rows) ==
  {k \in 1..Len(rows) : \A j \in 1..(k - 1) : rows[j][1] # rows[k][1]}

\* line 19, resample('D').ffill(): one row per day from the earliest to the
\* latest date, each holding the value of the kept row of the latest date
\* at or before the day, whatever that value is
Resample(rows) ==
  LET kept == Kept(rows)
      dates == {rows[k][1] : k \in kept} IN
  IF kept = {} THEN << >>
  ELSE [d \in Least(dates)..Greatest(dates) |->
          LET at == Greatest({e \in dates : e <= d})
              k == CHOOSE k \in kept : rows[k][1] = at IN
          rows[k][2]]

\* lines 11-20; lines 15-16 give the caller's series a datetime index
MakeDaily ==
  /\ fpc = "make_daily"
  /\ x_series' = [x_series EXCEPT !.is_datetime = TRUE]
  /\ final' = Resample(x_series.rows)
  /\ fpc' = "done"
  /\ UNCHANGED <<yfVars, taskVars, poolVars, envVars, callVars, handlerVars, cgVars, calcVars>>
  /\ UNCHANGED <<alignVars, signalVars, effectVars>>

\* The series handed to an aligning function: each on some of AlignDates,
\* holding d at date d or null, no date twice.
AlignDates == 1..MaxAlignDate

AlignSeries == {SeriesOn(D, N \cap D) : D \in SUBSET AlignDates, N \in SUBSET AlignDates}

NoFrame == [index |-> {}, columns |-> << >>]

AllDates(data) == UNION {DOMAIN data[n] : n \in DOMAIN data}

\* the range asked of get_research_data; the series fetched for it lie in it
start_dt == 1

end_dt == MaxAlignDate

\* data_handler.py, get_research_data, lines 275-303: the frame on the sorted
\* union of the dates, each series assigned on it, nulls filled forward, the
\* rows of the range asked for
AlignResearchData(data) ==
  LET all_dates == AllDates(data)
      in_range == {d \in all_dates : start_dt <= d /\ d <= end_dt} IN
  [index |-> in_range,
   columns |-> [n \in DOMAIN data |->
                  Restrict(Ffill(Reindex(data[n], all_dates)), in_range)]]

GetResearchData ==
  /\ fpc = "get_research_data"
  /\ df' = AlignResearchData(data_dict)
  /\ fpc' = "done"
  /\ UNCHANGED <<aligner, data_dict, dailyVars, signalVars, effectVars>>
  /\ UNCHANGED <<yfVars, taskVars, poolVars, envVars, callVars, handlerVars, cgVars, calcVars>>

\* DataCollection/DataCollectAPI.py, get_data, lines 79-89: the frame on the
\* sorted union of the dates, each series reindexed on it and filled forward
AlignData(data) ==
  LET all_dates == AllDates(data) IN
  [index |-> all_dates,
   columns |-> [n \in DOMAIN data |-> Ffill(Reindex(data[n], all_dates))]]

GetData ==
  /\ fpc = "get_data"
  /\ df' = AlignData(data_dict)
  /\ fpc' = "done"
  /\ UNCHANGED <<aligner, data_dict, dailyVars, signalVars, effectVars>>
  /\ UNCHANGED <<yfVars, taskVars, poolVars, envVars, callVars, handlerVars, cgVars, calcVars>>

\* helpingfunctions.py, combine, lines 27-28: min(series, key=len), the first
\* of the shortest series
Smallest(series) ==
  series[CHOOSE k \in DOMAIN series :
           /\ \A j \in DOMAIN series :
                Cardinality(DOMAIN series[k]) <= Cardinality(DOMAIN series[j])
           /\ \A j \in 1..(k - 1) :
                Cardinality(DOMAIN series[k]) < Cardinality(DOMAIN series[j])]

\* lines 22-34: the frame on the index of the shortest series, each series
\* reindexed on it and filled forward
CombineSeries(series) ==
  LET trading_days == DOMAIN Smallest(series) IN
  [index |-> trading_days,
   columns |-> [n \in DOMAIN series |-> Ffill(Reindex(series[n], trading_days))]]

Combine ==
  /\ fpc = "combine"
  /\ df' = CombineSeries(data_dict)
  /\ fpc' = "done"
  /\ UNCHANGED <<aligner, data_dict, dailyVars, signalVars, effectVars>>
  /\ UNCHANGED <<yfVars, taskVars, poolVars, envVars, callVars, handlerVars, cgVars, calcVars>>

\* real_returns_analyzer.py, fetch_asset_data.  A series object is an index
\* kind and its rows; `held` maps a symbol to the object that
\* fetch_symbols_optimized hands out, which is the object the optimizer stored
\* in its cache (yfinance_optimizer.py, lines 85-86 and 205-206: the same
\* object is cached, returned and put in the result, and only a non-empty one).
AssetSymbols == {"SPY", "BTC-USD"}

\* the dates asked of fetch_asset_data
AssetRange == 2..MaxAlignDate

\* line 66, resample('D').last().ffill(): one row per day from the first date
\* to the last, holding the latest known value at or before the day
DailyLast(rows) ==
  LET daily == Least(DOMAIN rows)..Greatest(DOMAIN rows) IN
  Ffill(Reindex(rows, daily))

\* lines 69-71
InRange(rows) == Restrict(rows, DOMAIN rows \cap AssetRange)

NoAligned == [synthetic |-> FALSE, series |-> << >>]

\* lines 433-480, generate_synthetic_asset_data: a random series per symbol
\* asked for, on every day of the range; the prices drawn are left out
SyntheticAssets == [synthetic |-> TRUE, series |-> [s \in AssetSymbols |-> AssetRange]]

\* lines 54-74: the symbols whose daily series has a row in the range
Aligned(asset_data) ==
  LET kept == {s \in DOMAIN asset_data :
                 DOMAIN InRange(DailyLast(asset_data[s].rows)) # {}} IN
  [synthetic |-> FALSE,
   series |-> [s \in kept |-> InRange(DailyLast(asset_data[s].rows))]]

\* lines 42-86.  Lines 58-63 assign the converted index to each object of the
\* dictionary, that is, to the objects of the cache.
FetchAssetData ==
  /\ fpc = "fetch_asset_data"
  /\ held' = [s \in DOMAIN held |-> [held[s] EXCEPT !.index = Localized(@)]]
  /\ aligned_data' = IF DOMAIN held # {} THEN Aligned(held) ELSE SyntheticAssets
  /\ fpc' = "done"
  /\ UNCHANGED <<dailyVars, alignVars, signalVars, asset_index, inflation_index, fredVars>>
  /\ UNCHANGED <<researchVars, recommendations>>
  /\ UNCHANGED <<yfVars, taskVars, poolVars, envVars, callVars, handlerVars, cgVars, calcVars>>

\* The observations of a FRED answer: a date and the value as the text FRED
\* sends, a number, the '.' of a missing value, or other text.
RawValues == {"10", "12", ".", "n/a"}

Observations == [date : Days, value : RawValues]

\* float(text) and pd.to_numeric(text): the number, or an exception
Float(text) ==
  CASE text = "10" -> [raised |-> FALSE, number |-> 10]
    [] text = "12" -> [raised |-> FALSE, number |-> 12]
    [] OTHER -> [raised |-> TRUE, number |-> NaN]

NoFetch == [by |-> "none", outcome |-> "none", rows |-> << >>]

\* data_handler.py, lines 102-105: the observations whose value is not '.',
\* in the order received
NotMissing(obs) == SelectSeq(obs, LAMBDA o : o.value # ".")

\* lines 98-119 on an answer of status 200 that carries observations: float()
\* of a value that is not a number raises inside the try of line 79, the
\* handler of line 115 logs it, and lines 118-119 return an empty series
HttpSeries(obs) ==
  LET kept == NotMissing(obs) IN
  IF \E k \in 1..Len(kept) : Float(kept[k].value).raised
    THEN [by |-> "http", outcome |-> "empty", rows |-> << >>]
  ELSE IF kept = << >>
    THEN [by |-> "http", outcome |-> "empty", rows |-> << >>]
  ELSE [by |-> "http", outcome |-> "returned",
        rows |-> [k \in 1..Len(kept) |-> <<kept[k].date, Float(kept[k].value).number>>]]

\* The HTTP fallback of get_fred_data, reached when fredapi and
\* pandas_datareader have raised; what it puts in the cache is in FredHttp.
GetFredDataHttp ==
  /\ fpc = "get_fred_data_http"
  /\ fetched' = HttpSeries(observations)
  /\ fpc' = "done"
  /\ UNCHANGED <<observations, series_id>>
  /\ UNCHANGED <<dailyVars, alignVars, signalVars, asset_index, inflation_index, held, aligned_data>>
  /\ UNCHANGED <<researchVars, recommendations>>
  /\ UNCHANGED <<yfVars, taskVars, poolVars, envVars, callVars, handlerVars, cgVars, calcVars>>

\* DataCollection/collectFRED_API.py, get_Fred, lines 36-43
Scale(id) == IF id = "UNEMPLOY" THEN 1000 ELSE 1

\* lines 29-45: line 31 raises on an answer without observations, line 34
\* raises on any value that is not a number, the '.' included; line 44 makes
\* the frame daily
FredFrame(id, obs) ==
  IF obs = << >> \/ \E k \in 1..Len(obs) : Float(obs[k].value).raised
    THEN [by |-> "get_Fred", outcome |-> "raised", rows |-> << >>]
    ELSE [by |-> "get_Fred", outcome |-> "returned",
          rows |-> Resample([k \in 1..Len(obs) |->
                               <<obs[k].date, Float(obs[k].value).number * Scale(id)>>])]

GetFred ==
  /\ fpc = "get_Fred"
  /\ fetched' = FredFrame(series_id, observations)
  /\ fpc' = "done"
  /\ UNCHANGED <<observations, series_id>>
  /\ UNCHANGED <<dailyVars, alignVars, signalVars, asset_index, inflation_index, held, aligned_data>>
  /\ UNCHANGED <<researchVars, recommendations>>
  /\ UNCHANGED <<yfVars, taskVars, poolVars, envVars, callVars, handlerVars, cgVars, calcVars>>

\* ------------------------------------------------------------ signal_detector
\* Values are fractions; a fraction with denominator 0 is a null.
FracLess(a, b) == Lowest(a)[1] * Lowest(b)[2] < Lowest(b)[1] * Lowest(a)[2]

FracAbs(a) == << Abs(Lowest(a)[1]), Lowest(a)[2] >>

FracMin(a, b) == IF FracLess(b, a) THEN Lowest(b) ELSE Lowest(a)

\* lines 16-22
signal_thresholds ==
  [inflation_spread_high |-> << 2, 100 >>,
   inflation_spread_low |-> << 0 - 1, 100 >>,
   btc_momentum |-> << 1, 10 >>,
   m2_acceleration |-> << 5, 100 >>,
   velocity_decline |-> << 0 - 2, 100 >>]

Null == << 0, 0 >>

\* pandas dropna on a column
DropNa(col) == SelectSeq(col, LAMBDA v : v[2] # 0)

\* the mean of the rows lo..hi of a column
RECURSIVE SumRows(_, _, _)
SumRows(col, lo, hi) ==
  IF hi < lo THEN Zero ELSE FracAdd(SumRows(col, lo, hi - 1), col[hi])

Mean(col, lo, hi) == FracDiv(SumRows(col, lo, hi), << hi - lo + 1, 1 >>)

\* lines 26-32, 74-80, 112-118: the signal a detector starts from
DefaultSignal == [level |-> "normal", direction |-> "neutral", strength |-> Zero]

\* no cap on the strength (seeded fault)
Uncapped(strength, cap) == Lowest(strength)

\* min(strength, cap), lines 50, 59, 103, 141
Capped(strength, cap) == FracMin(strength, << cap, 1 >>)

StrengthCap == 3

\* lines 24-70; the description and the timestamp of a signal are left out
DetectInflationDivergence(data) ==
  IF ~data.Inflation_Spread.present THEN DefaultSignal
  ELSE
    LET spread == DropNa(data.Inflation_Spread.values) IN
    IF Len(spread) < 2 THEN DefaultSignal
    ELSE
      LET current_spread == spread[Len(spread)] IN
      IF FracLess(signal_thresholds.inflation_spread_high, current_spread)
        THEN [level |-> "high", direction |-> "bearish",
              strength |-> Capped(FracDiv(current_spread,
                                          signal_thresholds.inflation_spread_high),
                                  StrengthCap)]
      ELSE IF FracLess(current_spread, signal_thresholds.inflation_spread_low)
        THEN [level |-> "high", direction |-> "bullish",
              strength |-> Capped(FracDiv(FracAbs(current_spread),
                                          FracAbs(signal_thresholds.inflation_spread_low)),
                                  StrengthCap)]
      ELSE DefaultSignal

MinOf(a, b) == IF a < b THEN a ELSE b

\* a short window of 5 rows whatever the length (seeded fault)
ShortWindowFixed(n) == 5

\* line 90: min(5, len(btc) // 4)
ShortWindow(n) == MinOf(5, n \div 4)

\* line 91: min(20, len(btc) // 2)
LongWindow(n) == MinOf(20, n \div 2)

\* lines 72-108; btc.iloc[-w] is the row w from the end
DetectBtcMomentum(data) ==
  IF ~data.BTC.present THEN DefaultSignal
  ELSE
    LET btc == DropNa(data.BTC.values)
        n == Len(btc) IN
    IF n < 10 THEN DefaultSignal
    ELSE
      LET short_window == ShortWindow(n)
          long_window == LongWindow(n)
          short_return == FracSub(FracDiv(btc[n], btc[n - short_window + 1]), One)
          long_return == FracSub(FracDiv(btc[n], btc[n - long_window + 1]), One)
          momentum == FracSub(short_return, long_return) IN
      IF FracLess(signal_thresholds.btc_momentum, FracAbs(momentum))
        THEN [level |-> "medium",
              direction |-> IF momentum[1] > 0 THEN "bullish" ELSE "bearish",
              strength |-> FracMin(FracDiv(FracAbs(momentum), signal_thresholds.btc_momentum),
                                   << 5, 2 >>)]
      ELSE DefaultSignal

\* the mean of only the 5 growth rates before the 5 most recent (seeded fault)
BaselineShort(growth_rates) ==
  Mean(growth_rates, Len(growth_rates) - 9, Len(growth_rates) - 5)

\* line 133: growth_rates.head(-5).tail(10).mean()
Baseline(growth_rates) ==
  Mean(growth_rates, Max(1, Len(growth_rates) - 14), Len(growth_rates) - 5)

\* lines 110-147; growth_rates holds the change over 5 rows from row 6 on
DetectMoneySupplyAcceleration(data) ==
  IF ~data.M2.present THEN DefaultSignal
  ELSE
    LET m2 == DropNa(data.M2.values) IN
    IF Len(m2) < 20 THEN DefaultSignal
    ELSE
      LET growth_rates == [k \in 1..(Len(m2) - 5) |->
                             FracSub(FracDiv(m2[k + 5], m2[k]), One)]
          g == Len(growth_rates) IN
      IF g < 10 THEN DefaultSignal
      ELSE
        LET recent_growth == Mean(growth_rates, g - 4, g)
            baseline_growth == Baseline(growth_rates)
            acceleration == FracSub(recent_growth, baseline_growth) IN
        IF FracLess(signal_thresholds.m2_acceleration, FracAbs(acceleration))
          THEN [level |-> IF FracLess(<< 1, 10 >>, FracAbs(acceleration))
                            THEN "high" ELSE "medium",
                direction |-> IF acceleration[1] > 0 THEN "bearish" ELSE "bullish",
                strength |-> Capped(FracDiv(FracAbs(acceleration),
                                            signal_thresholds.m2_acceleration),
                                    StrengthCap)]
        ELSE DefaultSignal

signal_names == << "inflation_divergence", "btc_momentum", "m2_acceleration" >>

\* lines 153-157
IndividualSignals(data) ==
  [inflation_divergence |-> DetectInflationDivergence(data),
   btc_momentum |-> DetectBtcMomentum(data),
   m2_acceleration |-> DetectMoneySupplyAcceleration(data)]

\* every level weighs the same (seeded fault)
LevelMultiplierFlat(level) == << 1, 1 >>

\* line 168: {'medium': 1.0, 'high': 2.0}.get(level, 0.5)
LevelMultiplier(level) ==
  IF level = "medium" THEN << 1, 1 >>
  ELSE IF level = "high" THEN << 2, 1 >>
  ELSE << 1, 2 >>

\* counts every signal (seeded fault)
IsActiveAlways(signal) == TRUE

\* line 166
IsActive(signal) == signal.level # "normal"

\* lines 159-177: the loop over the individual signals, up to the k-th
RECURSIVE Score(_, _)
Score(individual, k) ==
  IF k = 0
    THEN [total_strength |-> Zero, bullish_signals |-> Zero,
          bearish_signals |-> Zero, active_signals |-> << >>]
  ELSE
    LET sofar == Score(individual, k - 1)
        signal == individual[signal_names[k]]
        weighted_strength == FracMul(signal.strength, LevelMultiplier(signal.level)) IN
    IF ~IsActive(signal) THEN sofar
    ELSE [total_strength |-> FracAdd(sofar.total_strength, weighted_strength),
          bullish_signals |-> IF signal.direction = "bullish"
                                THEN FracAdd(sofar.bullish_signals, weighted_strength)
                                ELSE sofar.bullish_signals,
          bearish_signals |-> IF signal.direction = "bearish"
                                THEN FracAdd(sofar.bearish_signals, weighted_strength)
                                ELSE sofar.bearish_signals,
          active_signals |-> Append(sofar.active_signals, signal_names[k])]

\* lines 149-206; the description and the timestamp are left out
CompositeSignal(data) ==
  LET individual_signals == IndividualSignals(data)
      score == Score(individual_signals, Len(signal_names))
      net_signal == FracSub(score.bullish_signals, score.bearish_signals) IN
  [level |-> IF FracLess(<< 3, 1 >>, score.total_strength) THEN "high"
             ELSE IF FracLess(<< 3, 2 >>, score.total_strength) THEN "medium"
             ELSE "normal",
   direction |-> IF FracLess(<< 1, 2 >>, net_signal) THEN "bullish"
                 ELSE IF FracLess(net_signal, << 0 - 1, 2 >>) THEN "bearish"
                 ELSE "neutral",
   strength |-> score.total_strength,
   individual_signals |-> individual_signals,
   active_signals |-> score.active_signals,
   active_count |-> Len(score.active_signals)]

NoComposite ==
  [level |-> "", direction |-> "", strength |-> Zero,
   individual_signals |-> << >>, active_signals |-> << >>, active_count |-> 0]

CallDetectInflationDivergence ==
  /\ fpc = "detect_inflation_divergence"
  /\ signals' = DetectInflationDivergence(frame)
  /\ fpc' = "done"
  /\ UNCHANGED <<frame, composite, dailyVars, alignVars, effectVars>>
  /\ UNCHANGED <<yfVars, taskVars, poolVars, envVars, callVars, handlerVars, cgVars, calcVars>>

GenerateCompositeSignal ==
  /\ fpc = "generate_composite_signal"
  /\ composite' = CompositeSignal(frame)
  /\ fpc' = "done"
  /\ UNCHANGED <<frame, signals, dailyVars, alignVars, effectVars>>
  /\ UNCHANGED <<yfVars, taskVars, poolVars, envVars, callVars, handlerVars, cgVars, calcVars>>

\* signal_detector.py, get_trading_recommendations, lines 208-250: the list
\* for a composite signal; the symbols that open each line are left out
TradingRecommendations(composite_signal) ==
  LET level == composite_signal.level
      direction == composite_signal.direction
      strength == composite_signal.strength IN
  IF level = "high" /\ FracLess(<< 2, 1 >>, strength)
    THEN IF direction = "bearish"
           THEN << "High debasement risk detected",
                   "Consider increasing BTC allocation",
                   "Look for inflation-resistant assets",
                   "Reduce exposure to duration risk",
                   "Rebalance towards hard assets" >>
         ELSE IF direction = "bullish"
           THEN << "Debasement pressures easing",
                   "Consider reducing hedge positions",
                   "USD may strengthen temporarily",
                   "Traditional assets may outperform",
                   "Rebalance back to base allocation" >>
         ELSE << >>
  ELSE IF level = "medium"
    THEN << "Moderate signals detected",
            "Monitor key metrics closely",
            "Maintain current hedge ratios",
            "Prepare for potential regime change" >>
  ELSE << "No significant debasement signals",
          "Focus on base case allocation",
          "Regular portfolio maintenance",
          "Continue monitoring for changes" >>

\* the recommendations for the composite signal generate_composite_signal
\* has returned
GetTradingRecommendations ==
  /\ fpc = "done"
  /\ composite # NoComposite
  /\ recommendations' = TradingRecommendations(composite)
  /\ fpc' = "recommended"
  /\ UNCHANGED <<dailyVars, alignVars, signalVars>>
  /\ UNCHANGED <<asset_index, inflation_index, held, aligned_data, fredVars, researchVars>>
  /\ UNCHANGED <<yfVars, taskVars, poolVars, envVars, callVars, handlerVars, cgVars, calcVars>>

\* The frames handed to the detector. A column is absent, or holds its rows.
Absent == [present |-> FALSE, values |-> << >>]

Column(values) == [present |-> TRUE, values |-> values]

Thousandths(n) == << n, 1000 >>

\* spreads at, next to and far from the thresholds 0.02 and -0.01
SpreadLevels == {0 - 40, 0 - 30, 0 - 11, 0 - 10, 0, 20, 21, 60, 61}

SpreadColumns ==
  {Absent, Column(<< >>)}
    \cup {Column(<< Thousandths(v) >>) : v \in SpreadLevels}
    \cup {Column(<< Null, Thousandths(v) >>) : v \in SpreadLevels}
    \cup {Column(<< Thousandths(25), Thousandths(v) >>) : v \in SpreadLevels}
    \cup {Column(<< Thousandths(25), Thousandths(v), Null >>) : v \in SpreadLevels}

\* n prices: base, then before at the row before the last, then last
Prices(n, base, before, last) ==
  [k \in 1..n |-> << IF k = n THEN last ELSE IF k = n - 1 THEN before ELSE base, 1 >>]

\* n prices: first, then step more at every row
Ramp(n, first, step) == [k \in 1..n |-> << first + step * (k - 1), 1 >>]

BtcColumns ==
  {Absent, Column(Prices(9, 100, 80, 100))}
    \cup {Column(Prices(10, p[1], p[2], p[3])) :
            p \in {<<100, 100, 100>>, <<100, 80, 100>>, <<100, 125, 100>>,
                   <<110, 100, 110>>, <<111, 100, 111>>}}
    \cup {Column(Ramp(r[1], r[2], r[3])) :
            r \in {<<16, 100, 10>>, <<40, 100, 10>>, <<40, 500, 0 - 10>>,
                   <<40, 1000, 1>>}}
    \cup {Column(<< Null >> \o Ramp(40, 500, 0 - 4))}

\* n levels of the money supply: 100, and 100 + step at the last five rows
Levels(n, step) == [k \in 1..n |-> << IF k > n - 5 THEN 100 + step ELSE 100, 1 >>]

\* n levels of the money supply: 100 at the first five rows, 100 + early
\* after them, and late more at the last five rows
Stair(n, early, late) ==
  [k \in 1..n |-> << 100 + (IF k > 5 THEN early ELSE 0)
                        + (IF k > n - 5 THEN late ELSE 0), 1 >>]

M2Columns ==
  {Absent, Column(Levels(19, 20))}
    \cup {Column(Levels(20, step)) : step \in {0, 5, 6, 10, 11, 20, 0 - 6, 0 - 11}}
    \cup {Column(Stair(30, 100, late)) : late \in {0, 12, 22}}
    \cup {Column(<< Null >> \o Stair(20, 100, 0))}

Frames == [Inflation_Spread : SpreadColumns, BTC : BtcColumns, M2 : M2Columns]

NoData == [Inflation_Spread |-> Absent, BTC |-> Absent, M2 |-> Absent]

\* ------------------------------------------------------- get_research_data
\* data_handler.py, get_research_data, lines 228-316.  provided[n] is the
\* series handler.get_fred_data or handler.get_yfinance_data returns for the
\* name n, the empty series when the provider has none or failed.
fred_symbols == <<"CPI", "M2SL", "GDPC1", "M2V">>

ResearchNames == {fred_symbols[k] : k \in 1..Len(fred_symbols)} \cup {"BTC-USD"}

\* the dates asked for
ResearchRange == 1..MaxResearchDate

\* a value of a column of the frame: a fraction, or the null
Cell(v) == IF v = NaN THEN Null ELSE <<v, 1>>

Cells(s) == [d \in DOMAIN s |-> Cell(s[d])]

\* lines 256-264: the series that are not empty
Fetched(answers) ==
  [n \in {m \in DOMAIN answers : answers[m] # << >>} |-> Cells(answers[n])]

\* lines 267-274: P is added when the three series are there and
\* calculate_p_theory gives a series
PNeeds == {"M2SL", "M2V", "GDPC1"}

WithP(answers) ==
  LET P == PTheory(answers["M2SL"], answers["M2V"], answers["GDPC1"]) IN
  IF P # << >> THEN ("P" :> P) @@ Fetched(answers) ELSE Fetched(answers)

\* lines 294-297: the column of a series on the dates of the frame, nulls
\* filled with the latest value before them
FilledColumn(s, all_dates) ==
  [d \in all_dates |->
     LET before == {e \in DOMAIN s : e <= d /\ s[e] # Null} IN
     IF before = {} THEN Null ELSE s[Greatest(before)]]

\* lines 277-303: the frame on the sorted union of the dates, its rows inside
\* the range
RealFrame(columns) ==
  LET all_dates == UNION {DOMAIN columns[n] : n \in DOMAIN columns}
      inside == all_dates \cap ResearchRange IN
  [synthetic |-> FALSE, index |-> inside,
   columns |-> [n \in DOMAIN columns |->
                  Restrict(FilledColumn(columns[n], all_dates), inside)]]

\* lines 181-226, get_synthetic_data: four columns drawn on every day of the
\* range; the numbers drawn are left out
SyntheticNames == {"CPI", "P", "M2SL", "BTC-USD"}

SyntheticFrame ==
  [synthetic |-> TRUE, index |-> ResearchRange,
   columns |-> [n \in SyntheticNames |-> [d \in ResearchRange |-> One]]]

\* lines 243-316.  The test of line 275 and the block under it belong to the
\* branch of line 267: without M2SL, M2V and GDPC1 no frame is built.
ResearchData(answers) ==
  IF \A n \in PNeeds : answers[n] # << >>
    THEN LET df_real == RealFrame(WithP(answers)) IN
         IF Cardinality(df_real.index) >= MinFrameRows
           THEN df_real ELSE SyntheticFrame
    ELSE SyntheticFrame

NoResearch == [synthetic |-> FALSE, index |-> {}, columns |-> << >>]

GetResearchDataCall ==
  /\ fpc = "research_data"
  /\ research' = ResearchData(provided)
  /\ fpc' = "done"
  /\ UNCHANGED <<provided, recommendations>>
  /\ UNCHANGED <<dailyVars, alignVars, signalVars, asset_index, inflation_index, held, aligned_data, fredVars>>
  /\ UNCHANGED <<yfVars, taskVars, poolVars, envVars, callVars, handlerVars, cgVars, calcVars>>

\* get_research_data has not been called
InitResearch ==
  /\ provided = << >>
  /\ research = NoResearch

\* no answer of FRED is at hand
InitObservations ==
  /\ observations = << >>
  /\ series_id = "M2SL"
  /\ fetched = NoFetch
  /\ InitResearch
  /\ recommendations = << >>

\* no series object is held and nothing was handed to a calculator
InitEffects ==
  /\ asset_index = "naive"
  /\ inflation_index = "naive"
  /\ held = << >>
  /\ aligned_data = NoAligned
  /\ InitObservations

InitFrames ==
  /\ fpc = "idle"
  /\ x_series = [is_datetime |-> TRUE, rows |-> << >>]
  /\ final = << >>
  /\ aligner = "none"
  /\ data_dict = << >>
  /\ df = NoFrame
  /\ frame = NoData
  /\ signals = DefaultSignal
  /\ composite = NoComposite
  /\ InitEffects

InitCalc ==
  /\ cpc = "idle"
  /\ asset_prices = << >>
  /\ inflation_series = << >>
  /\ returns = NoReturns
  /\ money_supply = << >>
  /\ velocity = << >>
  /\ real_gdp = << >>
  /\ p_theory = << >>

\* line 27, and no pause taken yet
InitCount ==
  /\ request_count = 0
  /\ pauses = << >>

InitOptimizer ==
  /\ cache = << >>
  /\ last_request_time = -min_request_interval    \* line 26: 0, long ago
  /\ pc = [t \in Tasks |-> "idle"]
  /\ key = [t \in Tasks |-> NoKey]
  /\ i = [t \in Tasks |-> 0]
  /\ sleep = [t \in Tasks |-> 0]
  /\ reg = [t \in Tasks |-> 0]
  /\ tried = [t \in Tasks |-> << >>]
  /\ ret = [t \in Tasks |-> << >>]
  /\ mpc = "idle"
  /\ symbols = 0
  /\ period = PoolPeriod
  /\ batch_idx = 0
  /\ batch_results = << >>
  /\ results = << >>
  /\ msleep = 0
  /\ last_attempt = -min_request_interval
  /\ ops = 0
  /\ op = "none"
  /\ entry = {}

InitYF ==
  /\ InitCount
  /\ InitOptimizer

InitAdapters ==
  /\ fred_data_cache = << >>
  /\ yfinance_data_cache = << >>
  /\ hpc = "idle"
  /\ cg_cache = << >>
  /\ cg_last_request_time = -cg_min_request_interval   \* line 32: 0, long ago

\* The pool.  The properties of the pool read whether a series is empty, not what it
\* holds, so the provider answers with one content.
InitPool ==
  /\ InitYF
  /\ InitAdapters
  /\ InitCalc
  /\ InitFrames
  /\ coingecko_available = TRUE
  /\ fail_budget = MaxPoolFailures
  /\ payloads = {"p1"}

PoolNext ==
  \/ FetchMultipleSymbols
  \/ Submit
  \/ \E t \in 1..MaxSymbols : TaskStart(t)
  \/ \E t \in 1..MaxSymbols : FetchStep(t)
  \/ Collect
  \/ EndBatch
  \/ NextBatch
  \/ Tick

SpecPool == InitPool /\ [][PoolNext]_vars

\* fetch_multiple_symbols on the optimizer of the process (get_optimizer,
\* lines 243-248) after EarlierRequests requests of earlier fetches whose
\* answers were empty, so that nothing is cached; every answer is a series.
InitLaterPool ==
  /\ request_count = EarlierRequests
  /\ pauses = << >>
  /\ InitOptimizer
  /\ InitAdapters
  /\ InitCalc
  /\ InitFrames
  /\ coingecko_available = TRUE
  /\ fail_budget = 0
  /\ payloads = {"p1"}

SpecLaterPool == InitLaterPool /\ [][PoolNext]_vars

\* One caller, one call after the other.
Init ==
  /\ InitYF
  /\ InitAdapters
  /\ InitCalc
  /\ InitFrames
  /\ coingecko_available \in BOOLEAN
  /\ fail_budget = MaxOps * Len(strategies)
  /\ payloads = Data

Next ==
  \/ FetchSymbolOptimized
  \/ FetchStep(0)
  \/ ClearCache
  \/ GetYfinanceData
  \/ GetYfinanceDataReturn
  \/ GetFredData
  \/ GetPriceHistory
  \/ FetchSingleAssetRobust
  \/ Tick

Spec == Init /\ [][Next]_vars

\* Calls of fetch_single_symbol and clear_cache by one caller whose thread
\* keeps running while time passes: a strategy called returns or raises, a
\* sleep ends.
FetchNext ==
  \/ FetchSymbolOptimized
  \/ FetchStep(0)
  \/ ClearCache
  \/ Tick

SpecFetch == Init /\ [][FetchNext]_vars /\ WF_vars(FetchStep(0)) /\ WF_vars(Tick)

InitIdle ==
  /\ InitYF
  /\ InitAdapters
  /\ coingecko_available = TRUE
  /\ fail_budget = 0
  /\ payloads = Data

\* The calls of calculate_real_returns that are explored: the two series share
\* all but one of the dates that line 201 asks for, or more, or one of them
\* has at most one row.
ExploredCall(asset, inflation) ==
  \/ Cardinality(DOMAIN asset \cap DOMAIN inflation) >= MinCommonDates - 1
  \/ Cardinality(DOMAIN asset) <= 1
  \/ Cardinality(DOMAIN inflation) <= 1

InitReturns ==
  /\ InitIdle
  /\ InitFrames
  /\ cpc = "real_returns"
  /\ asset_prices \in SeriesSet
  /\ inflation_series \in SeriesSet
  /\ ExploredCall(asset_prices, inflation_series)
  /\ returns = NoReturns
  /\ money_supply = << >>
  /\ velocity = << >>
  /\ real_gdp = << >>
  /\ p_theory = << >>

SpecReturns == InitReturns /\ [][CalculateRealReturns]_vars

\* calculate_p_theory on three series over PDates
InitPTheory ==
  /\ InitIdle
  /\ InitFrames
  /\ cpc = "p_theory"
  /\ asset_prices = << >>
  /\ inflation_series = << >>
  /\ returns = NoReturns
  /\ money_supply \in PSeriesSet({100, 200}) \cup PExamples(100, 110)
  /\ velocity \in PSeriesSet({1, -20}) \cup PExamples(1, 1)
  /\ real_gdp \in PSeriesSet({50}) \cup PExamples(100, 100)
  /\ p_theory = << >>

SpecPTheory == InitPTheory /\ [][CalculatePTheory]_vars

\* make_daily on every series of up to MaxRows rows
InitDaily ==
  /\ InitIdle
  /\ InitCalc
  /\ fpc = "make_daily"
  /\ x_series \in [is_datetime : BOOLEAN, rows : RowSeqs]
  /\ final = << >>
  /\ aligner = "none"
  /\ data_dict = << >>
  /\ df = NoFrame
  /\ frame = NoData
  /\ signals = DefaultSignal
  /\ composite = NoComposite
  /\ InitEffects

SpecDaily == InitDaily /\ [][MakeDaily]_vars

\* each aligning function on every pair of series over AlignDates;
\* get_research_data keeps the series that are not empty (lines 258, 263)
InitAlign ==
  /\ InitIdle
  /\ InitCalc
  /\ x_series = [is_datetime |-> TRUE, rows |-> << >>]
  /\ final = << >>
  /\ aligner \in {"get_research_data", "get_data", "combine"}
  /\ fpc = aligner
  /\ data_dict \in [1..2 -> AlignSeries]
  /\ aligner = "get_research_data" => \A n \in 1..2 : DOMAIN data_dict[n] # {}
  /\ df = NoFrame
  /\ frame = NoData
  /\ signals = DefaultSignal
  /\ composite = NoComposite
  /\ InitEffects

AlignNext == GetResearchData \/ GetData \/ Combine

SpecAlign == InitAlign /\ [][AlignNext]_vars

\* a detector call on every frame of Frames
InitSignals ==
  /\ InitIdle
  /\ InitCalc
  /\ x_series = [is_datetime |-> TRUE, rows |-> << >>]
  /\ final = << >>
  /\ aligner = "none"
  /\ data_dict = << >>
  /\ df = NoFrame
  /\ fpc \in {"detect_inflation_divergence", "generate_composite_signal"}
  /\ frame \in Frames
  /\ signals = DefaultSignal
  /\ composite = NoComposite
  /\ InitEffects

SignalNext ==
  \/ CallDetectInflationDivergence
  \/ GenerateCompositeSignal
  \/ GetTradingRecommendations

SpecSignals == InitSignals /\ [][SignalNext]_vars

\* One call of a consumer of series: calculate_real_returns on two series of
\* any index kind, make_daily on a series, fetch_asset_data on the objects
\* the cache holds.
HeldSeries == {s \in AlignSeries : DOMAIN s # {}}

HeldObjects == [index : IndexKinds, rows : HeldSeries]

HandedPrices == {SeriesOn(D, {}) : D \in {Dates, 1..2, {3}}}

InitEffects_Returns ==
  /\ cpc = "real_returns"
  /\ fpc = "idle"
  /\ asset_prices \in HandedPrices
  /\ inflation_series \in HandedPrices
  /\ asset_index \in IndexKinds
  /\ inflation_index \in IndexKinds
  /\ x_series = [is_datetime |-> TRUE, rows |-> << >>]
  /\ held = << >>

InitEffects_Daily ==
  /\ cpc = "idle"
  /\ fpc = "make_daily"
  /\ asset_prices = << >>
  /\ inflation_series = << >>
  /\ asset_index = "naive"
  /\ inflation_index = "naive"
  /\ x_series \in [is_datetime : BOOLEAN, rows : RowSeqs]
  /\ held = << >>

InitEffects_Fetch ==
  /\ cpc = "idle"
  /\ fpc = "fetch_asset_data"
  /\ asset_prices = << >>
  /\ inflation_series = << >>
  /\ asset_index = "naive"
  /\ inflation_index = "naive"
  /\ x_series = [is_datetime |-> TRUE, rows |-> << >>]
  /\ \E S \in SUBSET AssetSymbols : held \in [S -> HeldObjects]

InitConsumers ==
  /\ InitIdle
  /\ returns = NoReturns
  /\ money_supply = << >>
  /\ velocity = << >>
  /\ real_gdp = << >>
  /\ p_theory = << >>
  /\ final = << >>
  /\ aligner = "none"
  /\ data_dict = << >>
  /\ df = NoFrame
  /\ frame = NoData
  /\ signals = DefaultSignal
  /\ composite = NoComposite
  /\ aligned_data = NoAligned
  /\ InitObservations
  /\ \/ InitEffects_Returns
     \/ InitEffects_Daily
     \/ InitEffects_Fetch

ConsumerNext == CalculateRealReturns \/ MakeDaily \/ FetchAssetData

SpecConsumers == InitConsumers /\ [][ConsumerNext]_vars

\* One fetch from FRED on every answer of up to MaxObservations observations
ObservationSeqs == UNION {[1..n -> Observations] : n \in 0..MaxObservations}

InitFred ==
  /\ InitIdle
  /\ InitCalc
  /\ fpc \in {"get_fred_data_http", "get_Fred"}
  /\ x_series = [is_datetime |-> TRUE, rows |-> << >>]
  /\ final = << >>
  /\ aligner = "none"
  /\ data_dict = << >>
  /\ df = NoFrame
  /\ frame = NoData
  /\ signals = DefaultSignal
  /\ asset_index = "naive"
  /\ inflation_index = "naive"
  /\ held = << >>
  /\ aligned_data = NoAligned
  /\ observations \in ObservationSeqs
  /\ series_id \in {"M2SL", "UNEMPLOY"}
  /\ fetched = NoFetch
  /\ InitResearch
  /\ recommendations = << >>
  /\ composite = NoComposite

FredNext == GetFredDataHttp \/ GetFred

SpecFred == InitFred /\ [][FredNext]_vars

\* get_research_data on every combination of answers of the five providers:
\* no series, or a series on some of the dates 0..MaxResearchDate
ResearchSeries(D, N) == [d \in D |-> IF d \in N THEN NaN ELSE 100 + d]

Answers ==
  {<< >>,
   ResearchSeries(0..MaxResearchDate, {}),
   ResearchSeries(3..MaxResearchDate, {5}),
   ResearchSeries(1..(MaxResearchDate - 3), {}),
   ResearchSeries({1, 6, MaxResearchDate}, {})}

InitResearchCall ==
  /\ InitIdle
  /\ InitCalc
  /\ fpc = "research_data"
  /\ x_series = [is_datetime |-> TRUE, rows |-> << >>]
  /\ final = << >>
  /\ aligner = "none"
  /\ data_dict = << >>
  /\ df = NoFrame
  /\ frame = NoData
  /\ signals = DefaultSignal
  /\ asset_index = "naive"
  /\ inflation_index = "naive"
  /\ held = << >>
  /\ aligned_data = NoAligned
  /\ observations = << >>
  /\ series_id = "M2SL"
  /\ fetched = NoFetch
  /\ provided \in [ResearchNames -> Answers]
  /\ research = NoResearch
  /\ recommendations = << >>
  /\ composite = NoComposite

SpecResearch == InitResearchCall /\ [][GetResearchDataCall]_vars

\* ------------------------------------------------------------------ properties
BatchOf(t) == (t - 1) \div batch_size

Last(log) == log[Len(log)]

\* the attempts of a log that went out to the provider
Outbound(log) == SelectSeq(log, LAMBDA a : a.outcome # "missing")

StrategiesOf(operation) ==
  IF operation = "_fetch_single_asset_robust" THEN robust_strategies
  ELSE IF operation = "get_fred_data" THEN fred_strategies
  ELSE strategies

\* C1: the attempts of a fetch follow the list of strategies from its first
\* entry, one after the other; a non-empty answer is the last attempt of the
\* fetch, the fetch is over with it and returns exactly that answer; a fetch
\* that missed the cache and returned has attempted at least the first
\* strategy, and what it returns non-empty is the answer of its last attempt.
C1_FirstSuccessWins ==
  op \in {"fetch_single_symbol", "get_yfinance_data", "_fetch_single_asset_robust"} =>
    LET log == tried[0]
        names == StrategiesOf(op) IN
    /\ Len(log) <= Len(names)
    /\ \A n \in 1..Len(log) :
         /\ log[n].strategy = names[n]
         /\ n < Len(log) => log[n].outcome \notin Data \cup {"pending"}
         /\ log[n].outcome \in Data =>
              (n = Len(log) /\ pc[0] = "returned" /\ ret[0] = <<log[n].outcome>>)
    /\ (pc[0] = "returned" /\ op # "get_yfinance_data" /\ entry = {}) => log # << >>
    /\ (pc[0] = "returned" /\ log # << >> /\ ret[0] # << >>) => ret[0] = <<Last(log).outcome>>

\* the third strategy of fetch_single_symbol answered after two had failed
C1_Witness ==
  /\ op = "fetch_single_symbol" /\ pc[0] = "returned"
  /\ Len(tried[0]) = 3 /\ tried[0][3].outcome \in Data /\ ret[0] = <<tried[0][3].outcome>>
  /\ tried[0][1].outcome = "raise" /\ tried[0][2].outcome = "empty"

\* C2: a fetch that found nothing in the cache returns the empty series only
\* after every strategy of its provider was attempted and failed: four for
\* fetch_single_symbol, three for get_fred_data.
C2_UnavailableAfterAll ==
  (op \in {"fetch_single_symbol", "get_fred_data"} /\ pc[0] = "returned"
     /\ entry = {} /\ ret[0] = << >>)
    => /\ Len(tried[0]) = Len(StrategiesOf(op))
       /\ \A n \in 1..Len(tried[0]) : tried[0][n].outcome \notin Data

\* get_fred_data gave up although a provider was never asked
C2_Witness ==
  /\ op = "get_fred_data" /\ pc[0] = "returned" /\ entry = {} /\ ret[0] = << >>
  /\ Len(tried[0]) < Len(fred_strategies)

\* C3: a fetch whose key holds a non-empty series in the adapter's cache
\* returns that series and makes no outbound request: no strategy is
\* attempted, and the call leaves the request counter as it was.
C3_CachedNoRequest ==
  /\ []((op \in {"fetch_single_symbol", "get_price_history", "get_fred_data"}
          /\ pc[0] = "returned" /\ entry # {} /\ entry # {<< >>})
         => (ret[0] \in entry /\ Outbound(tried[0]) = << >>))
  /\ [][(ops' # ops /\ op' \in {"fetch_single_symbol", "get_price_history", "get_fred_data"}
          /\ entry' # {} /\ entry' # {<< >>})
         => (request_count' = request_count /\ pc'[0] = "returned")]_vars

\* get_fred_data asked a provider for a series its cache holds
C3_Witness ==
  /\ op = "get_fred_data" /\ pc[0] = "returned" /\ entry # {} /\ entry # {<< >>}
  /\ Outbound(tried[0]) # << >>

\* C5: no call of fetch_single_symbol, get_fred_data, get_yfinance_data or
\* get_price_history is left by an exception, and a call in which a provider
\* raised and none answered with data, nothing being cached, returns the
\* empty series.
C5_NoExceptionEscapes ==
  (op \in {"fetch_single_symbol", "get_fred_data", "get_yfinance_data", "get_price_history"}
     /\ pc[0] = "returned")
    => /\ ret[0] # Raised
       /\ ((\E n \in 1..Len(tried[0]) : tried[0][n].outcome = "raise")
            /\ (\A n \in 1..Len(tried[0]) : tried[0][n].outcome \notin Data)
            /\ entry = {})
           => ret[0] = << >>

\* get_yfinance_data returned after three strategies raised and the last was empty
C5_Witness ==
  /\ op = "get_yfinance_data" /\ hpc = "done" /\ pc[0] = "returned" /\ ret[0] = << >>
  /\ Len(tried[0]) = 4 /\ \A n \in 1..3 : tried[0][n].outcome = "raise"

\* C4: any two outbound strategy attempts made through one optimizer start at
\* least min_request_interval apart: whenever an attempt starts, the attempt
\* before it started at least min_request_interval ago.
C4_AttemptsSpaced ==
  [][\A t \in Tasks : (pc[t] # "strategy" /\ pc'[t] = "strategy")
                         => last_attempt <= 0 - min_request_interval]_vars

\* two workers have attempts under way that started within the same interval
C4_Witness ==
  \E t, u \in 1..MaxSymbols : t # u /\ pc[t] = "strategy" /\ pc[u] = "strategy"
                                /\ last_attempt > 0 - min_request_interval

\* C8: a fetch that is queued or under way belongs to the current batch, every
\* fetch of an earlier batch is over and collected, and no fetch of a later
\* batch exists yet; the loop moves to the next batch only out of a pause of
\* BatchPause that has elapsed, pauses only when another batch follows, and
\* ends straight after the last batch.
C8_BatchesInTurn ==
  /\ [](\A t \in 1..MaxSymbols :
          /\ pc[t] \notin {"idle", "collected"} => BatchOf(t) = batch_idx
          /\ (t <= symbols /\ BatchOf(t) < batch_idx) => pc[t] = "collected"
          /\ BatchOf(t) > batch_idx => pc[t] = "idle")
  /\ [](mpc = "pause" => batch_idx < Len(SymbolBatches(symbols)) - 1)
  /\ [][/\ batch_idx' # batch_idx => (mpc = "pause" /\ msleep = 0 /\ batch_idx' = batch_idx + 1)
        /\ (mpc # "pause" /\ mpc' = "pause") => msleep' = BatchPause
        /\ (mpc = "collect" /\ mpc' = "done")
             => (batch_idx = Len(SymbolBatches(symbols)) - 1 /\ msleep' = 0)]_vars

\* a fetch of the second batch is under way
C8_Witness == batch_idx = 1 /\ Running # {} /\ \A t \in 1..batch_size : pc[t] = "collected"

\* C9: never more than max_workers fetches in flight, and never more than the
\* pool of the current batch holds, min(max_workers, batch length).
C9_BoundedInFlight ==
  /\ Cardinality(Running) <= max_workers
  /\ mpc = "collect" => Cardinality(Running) <= Min(max_workers, Len(Batch))
  /\ mpc # "collect" => Running = {}

\* three fetches in flight while more of the batch wait
C9_Witness == Cardinality(Running) = max_workers /\ \E t \in 1..MaxSymbols : pc[t] = "queued"

CommonDates == DOMAIN asset_prices \cap DOMAIN inflation_series

\* the common dates, when on them each series holds a value that is not null
FilledDates ==
  IF (\E d \in CommonDates : asset_prices[d] # NaN)
     /\ (\E d \in CommonDates : inflation_series[d] # NaN)
    THEN CommonDates ELSE {}

\* C6: calculate_real_returns on a non-empty asset series and an inflation
\* series sharing fewer than 5 dates with it, the empty series and a series
\* of one point included, returns a result tagged synthetic and does not raise.
C6_SparseOverlapSynthetic ==
  (cpc = "done" /\ returns # NoReturns /\ DOMAIN asset_prices # {}
     /\ Cardinality(CommonDates) < 5)
    => (returns.outcome = "returned" /\ returns.synthetic)

\* the call with an empty inflation series was left by an exception
C6_Witness ==
  /\ cpc = "done" /\ DOMAIN asset_prices # {} /\ DOMAIN inflation_series = {}
  /\ returns.outcome = "IndexError"

\* C7: a result of calculate_real_returns is tagged synthetic exactly when the
\* inputs share fewer than 5 dates or fewer than 2 dates are left once the
\* nulls that filling could not remove are dropped; otherwise it carries the
\* inflation label as given, lies on the dates left, and its inflation leg is
\* the given inflation series on those dates, each null replaced by the
\* latest value before it (by the first value after it, where none is before).
C7_SyntheticOnlyAsFallback ==
  (cpc = "done" /\ returns.outcome = "returned") =>
    /\ returns.measure = inflation_name
    /\ returns.synthetic <=> (Cardinality(CommonDates) < 5 \/ Cardinality(FilledDates) < 2)
    /\ ~returns.synthetic =>
         /\ returns.dates = FilledDates
         /\ DOMAIN returns.inflation = FilledDates
         /\ \A d \in FilledDates :
              LET v == returns.inflation[d] IN
              /\ v # NaN /\ v \in CommonDates /\ inflation_series[v] = v
              /\ \A e \in CommonDates :
                   ((v < e /\ e <= d) \/ (e < v /\ d < v)) => inflation_series[e] = NaN

\* five common dates, nulls among them, and the result computed from the real series
C7_Witness ==
  /\ cpc = "done" /\ returns.outcome = "returned" /\ ~returns.synthetic
  /\ Cardinality(CommonDates) = 5
  /\ \E d \in CommonDates : inflation_series[d] = NaN
  /\ \E d \in CommonDates : asset_prices[d] = NaN

PCommonDates == (DOMAIN money_supply \cap DOMAIN velocity) \cap DOMAIN real_gdp

\* C10: calculate_p_theory returns the empty series, which no computed series
\* is, when its three inputs have fewer than 10 dates in common, and a series
\* on exactly the common dates when they have 10 or more.
C10_OverlapThreshold ==
  cpc = "done" =>
    /\ Cardinality(PCommonDates) < 10 => p_theory = << >>
    /\ Cardinality(PCommonDates) >= 10 =>
         (p_theory # << >> /\ DOMAIN p_theory = PCommonDates)

\* exactly ten common dates, and a series computed on them
C10_Witness ==
  /\ cpc = "done" /\ Cardinality(PCommonDates) = 10 /\ p_theory # << >>
  /\ DOMAIN money_supply # DOMAIN real_gdp

\* the fraction v equals the whole number n
IsWhole(v, n) == v[2] # 0 /\ v[1] = n * v[2]

\* M*V/Q at date d
RawP(d) == << money_supply[d] * velocity[d], real_gdp[d] >>

\* C11: a series that calculate_p_theory computes from non-zero inputs lies on
\* exactly the dates present in all three inputs, its first value is exactly
\* 100, and every value is the raw value M*V/Q of its date divided by the raw
\* value of the first date and multiplied by 100.
C11_FirstValueHundred ==
  (cpc = "done" /\ p_theory # << >>) =>
    LET first == Least(PCommonDates) IN
    /\ DOMAIN p_theory = PCommonDates
    /\ IsWhole(p_theory[first], 100)
    /\ \A d \in PCommonDates :
         /\ p_theory[d][2] # 0
         /\ Lowest(p_theory[d]) = FracTimes(FracDiv(RawP(d), RawP(first)), 100)

\* a series computed from inputs with a negative velocity and a missing date
C11_Witness ==
  /\ cpc = "done" /\ p_theory # << >>
  /\ PCommonDates # DOMAIN money_supply
  /\ \E d \in PCommonDates : velocity[d] < 0
  /\ \E d \in PCommonDates : ~IsWhole(p_theory[d], 100)

IsExample(n) ==
  /\ money_supply = ExampleSeries(n, 100, 110)
  /\ velocity = ExampleSeries(n, 1, 1)
  /\ real_gdp = ExampleSeries(n, 100, 100)

\* C12 as stated: for moneySupply = [100, 110], velocity = [1, 1] and
\* realOutput = [100, 100] on the same 2 dates calculate_p_theory returns the
\* series [100, 110].
C12_TwoDateExample ==
  (cpc = "done" /\ IsExample(2)) =>
    /\ p_theory # << >>
    /\ DOMAIN p_theory = {1, 2}
    /\ IsWhole(p_theory[1], 100)
    /\ IsWhole(p_theory[2], 110)

\* C12 amended: on 2 dates the example is below the threshold of 10 common
\* dates and calculate_p_theory returns the empty series; for the same values
\* on 10 dates (100 then 110 throughout, velocity 1, real output 100) it
\* returns 100 at the first date and 110 at every later date.
C12_ExampleOnTenDates ==
  /\ (cpc = "done" /\ IsExample(2)) => p_theory = << >>
  /\ (cpc = "done" /\ IsExample(MinPDates)) =>
       /\ p_theory # << >>
       /\ DOMAIN p_theory = 1..MinPDates
       /\ IsWhole(p_theory[1], 100)
       /\ \A d \in 2..MinPDates : IsWhole(p_theory[d], 110)

\* the example on ten dates, computed
C12_Witness == cpc = "done" /\ IsExample(MinPDates) /\ p_theory # << >>

Done == cpc = "done" /\ returns.outcome = "returned"

\* C13: in every result of calculate_real_returns, on the real path and on
\* the synthetic path alike, the nominal and the real cumulative series both
\* equal 1.0 at the first date of the result.
C13_CumulativeBaseOne ==
  Done =>
    LET first == Least(returns.dates) IN
    /\ returns.columns.nominal_cumulative[first] = One
    /\ returns.columns.real_cumulative[first] = One

\* a synthetic result whose real cumulative series starts off 1.0
C13_Witness ==
  /\ Done /\ returns.synthetic
  /\ returns.columns.nominal_cumulative[Least(returns.dates)] = One
  /\ returns.columns.real_cumulative[Least(returns.dates)] # One

Flat(asset) == \A d, e \in DOMAIN asset : Ffill(asset)[d] = Ffill(asset)[e]

\* C14: at every date of a result the real return is the nominal return
\* minus the inflation return, on both paths; an asset whose price never
\* changes has nominal return 0 and real return minus inflation everywhere.
C14_RealIsNominalMinusInflation ==
  Done =>
    /\ DOMAIN returns.columns.real_returns = returns.dates
    /\ \A d \in returns.dates :
         /\ returns.columns.real_returns[d] =
              FracSub(returns.columns.nominal_returns[d], returns.columns.inflation_returns[d])
         /\ Flat(asset_prices) =>
              /\ returns.columns.nominal_returns[d] = Zero
              /\ returns.columns.real_returns[d] = Opposite(returns.columns.inflation_returns[d])

\* a result on the real series for an asset whose price never changes, the
\* inflation changing
C14_Witness ==
  /\ Done /\ ~returns.synthetic /\ Flat(asset_prices)
  /\ \E d \in returns.dates : returns.columns.inflation_returns[d] # Zero
  /\ \E d \in returns.dates : returns.columns.real_returns[d] # Zero

\* C15: the real Sharpe ratio of a result is exactly 0 when the real
\* volatility is 0, and the annualized real return divided by the real
\* volatility when the volatility is positive.
C15_SharpeGuarded ==
  Done =>
    /\ returns.columns.real_vol_sq = VolSquared(returns.columns.real_returns)
    /\ returns.columns.real_vol_sq[1] = 0 => returns.columns.real_sharpe = << "zero" >>
    /\ returns.columns.real_vol_sq[1] > 0 =>
         returns.columns.real_sharpe =
           << "ratio", Annualized(returns.columns.real_cumulative), returns.columns.real_vol_sq >>

\* a result of several dates whose real returns never vary
C15_Witness ==
  /\ Done /\ Cardinality(returns.dates) > 1
  /\ returns.columns.real_vol_sq[1] = 0
  /\ returns.columns.real_sharpe = << "zero" >>

RowDates == {x_series.rows[k][1] : k \in 1..Len(x_series.rows)}

\* C16: make_daily returns one value per calendar day from the first to the
\* last input date inclusive (a single observation gives a single day), each
\* the input value of the latest date at or before the day, the first
\* occurrence of that date where the date is repeated.
C16_DailyForwardFill ==
  (fpc = "done" /\ x_series.rows # << >>) =>
    LET rows == x_series.rows IN
    /\ DOMAIN final = Least(RowDates)..Greatest(RowDates)
    /\ Cardinality(DOMAIN final) = Greatest(RowDates) - Least(RowDates) + 1
    /\ \A d \in DOMAIN final :
         \E k \in 1..Len(rows) :
           /\ rows[k][1] <= d
           /\ \A j \in 1..Len(rows) : rows[j][1] <= d => rows[j][1] <= rows[k][1]
           /\ \A j \in 1..(k - 1) : rows[j][1] # rows[k][1]
           /\ final[d] = rows[k][2]

\* rows out of order, a date repeated with another value, and a gap day filled
C16_Witness ==
  /\ fpc = "done"
  /\ x_series.rows = << <<3, 12>>, <<1, 10>>, <<1, 12>> >>
  /\ final = << 10, 10, 12 >>

\* the value the series holds at its latest date at or before d that is not
\* null, null when there is none
LastKnown(s, d) ==
  LET before == {e \in Known(s) : e <= d} IN
  IF before = {} THEN NaN ELSE s[Greatest(before)]

\* C17: the frame an aligning function builds (get_research_data, get_data,
\* combine) lies on the union of the dates of all the series given, and each
\* column holds, at every date, its own series' latest known value at or
\* before the date, and null before the first one.
C17_UnionForwardFill ==
  fpc = "done" /\ aligner # "none" =>
    /\ df.index = AllDates(data_dict)
    /\ \A n \in DOMAIN data_dict :
         /\ DOMAIN df.columns[n] = df.index
         /\ \A d \in df.index : df.columns[n][d] = LastKnown(data_dict[n], d)

\* combine has built a frame on the dates of the shortest series, dates of
\* the other series left out
C17_Witness ==
  /\ fpc = "done" /\ aligner = "combine"
  /\ df.index # AllDates(data_dict)
  /\ \E n \in DOMAIN data_dict, d \in df.index : df.columns[n][d] # LastKnown(data_dict[n], d)

Composed == fpc = "done" /\ composite # NoComposite

\* the part a signal adds to the totals: its strength once at level medium,
\* twice at level high, nothing at level normal
Weight(signal) ==
  IF signal.level = "medium" THEN Lowest(signal.strength)
  ELSE IF signal.level = "high" THEN FracAdd(signal.strength, signal.strength)
  ELSE Zero

WeightToward(signal, direction) ==
  IF signal.direction = direction THEN Weight(signal) ELSE Zero

Total3(a, b, c) == FracAdd(FracAdd(a, b), c)

\* C18: generate_composite_signal weighs each signal that is not normal by
\* its level (medium once, high twice) and sums the weights into a bullish, a
\* bearish and an overall total; the direction is bullish if bullish minus
\* bearish is above 0.5, bearish if below -0.5, else neutral; the level is
\* high if the overall total is above 3.0, medium if above 1.5, else normal.
C18_CompositeWeights ==
  Composed =>
    LET ind == composite.individual_signals
        total == Total3(Weight(ind.inflation_divergence), Weight(ind.btc_momentum),
                        Weight(ind.m2_acceleration))
        bullish == Total3(WeightToward(ind.inflation_divergence, "bullish"),
                          WeightToward(ind.btc_momentum, "bullish"),
                          WeightToward(ind.m2_acceleration, "bullish"))
        bearish == Total3(WeightToward(ind.inflation_divergence, "bearish"),
                          WeightToward(ind.btc_momentum, "bearish"),
                          WeightToward(ind.m2_acceleration, "bearish"))
        net == FracSub(bullish, bearish) IN
    /\ ind = IndividualSignals(frame)
    /\ composite.strength = total
    /\ composite.direction = "bullish" <=> 2 * net[1] > net[2]
    /\ composite.direction = "bearish" <=> 2 * net[1] < 0 - net[2]
    /\ composite.direction \in {"bullish", "bearish", "neutral"}
    /\ composite.level = "high" <=> total[1] > 3 * total[2]
    /\ composite.level = "medium" <=> (2 * total[1] > 3 * total[2] /\ total[1] <= 3 * total[2])
    /\ composite.level \in {"high", "medium", "normal"}

\* a high bearish signal and a medium bullish one, both counted, the high
\* one deciding the direction
C18_Witness ==
  /\ Composed
  /\ composite.individual_signals.inflation_divergence.direction = "bearish"
  /\ composite.individual_signals.btc_momentum.direction = "bullish"
  /\ composite.individual_signals.m2_acceleration.level = "normal"
  /\ composite.direction = "bearish" /\ composite.level = "high"

\* C19: when none of the three signals exceeds its threshold, a frame that
\* lacks the columns or has too few observations included,
\* generate_composite_signal returns level normal, direction neutral,
\* strength 0 and no active signal.
C19_QuietComposite ==
  Composed =>
    LET quiet == /\ composite.level = "normal"
                 /\ composite.direction = "neutral"
                 /\ composite.strength = Zero
                 /\ composite.active_signals = << >>
                 /\ composite.active_count = 0 IN
    /\ (\A n \in DOMAIN composite.individual_signals :
          composite.individual_signals[n].level = "normal") => quiet
    /\ (/\ (~frame.Inflation_Spread.present \/ Len(DropNa(frame.Inflation_Spread.values)) < 2)
        /\ (~frame.BTC.present \/ Len(DropNa(frame.BTC.values)) < 10)
        /\ (~frame.M2.present \/ Len(DropNa(frame.M2.values)) < 20)) => quiet

\* a frame with all three columns and enough rows, every signal under its
\* threshold
C19_Witness ==
  /\ Composed
  /\ Len(DropNa(frame.Inflation_Spread.values)) >= 2
  /\ Len(DropNa(frame.BTC.values)) >= 10
  /\ Len(DropNa(frame.M2.values)) >= 20
  /\ composite.level = "normal" /\ composite.active_count = 0

\* the result of detect_inflation_divergence, called alone or by
\* generate_composite_signal
InflationSignal ==
  IF composite = NoComposite THEN signals
  ELSE composite.individual_signals.inflation_divergence

\* C20: on a spread with at least 2 observations detect_inflation_divergence
\* gives high / bearish with strength min(current/0.02, 3.0) when the latest
\* spread is above 0.02, high / bullish with strength min(|current|/0.01, 3.0)
\* when it is below -0.01, and normal / neutral / 0 otherwise; a strength it
\* emits lies in (1, 3].
C20_InflationDivergence ==
  (fpc = "done" /\ frame.Inflation_Spread.present
     /\ Len(DropNa(frame.Inflation_Spread.values)) >= 2) =>
    LET spread == DropNa(frame.Inflation_Spread.values)
        current == spread[Len(spread)]
        s == InflationSignal
        above == 100 * current[1] > 2 * current[2]
        below == 100 * current[1] < 0 - current[2] IN
    /\ above => /\ s.level = "high" /\ s.direction = "bearish"
                /\ s.strength = IF 100 * current[1] > 6 * current[2]
                                  THEN << 3, 1 >>
                                  ELSE Lowest(<< 100 * current[1], 2 * current[2] >>)
    /\ below => /\ s.level = "high" /\ s.direction = "bullish"
                /\ s.strength = IF 100 * current[1] < 0 - (3 * current[2])
                                  THEN << 3, 1 >>
                                  ELSE Lowest(<< 0 - (100 * current[1]), current[2] >>)
    /\ (~above /\ ~below) => s = DefaultSignal
    /\ s.level # "normal" => /\ s.strength[1] > s.strength[2]
                             /\ s.strength[1] <= 3 * s.strength[2]

\* called alone: a spread far below -0.01 with a null after it, and the
\* strength held at 3
C20_Witness ==
  /\ fpc = "done" /\ composite = NoComposite
  /\ frame.Inflation_Spread.values = << Thousandths(25), Thousandths(0 - 40), Null >>
  /\ signals = [level |-> "high", direction |-> "bullish", strength |-> << 3, 1 >>]

GrowthAt(m2, k) == FracSub(FracDiv(m2[k], m2[k - 5]), One)

RECURSIVE GrowthSum(_, _, _)
GrowthSum(m2, lo, hi) ==
  IF hi < lo THEN Zero ELSE FracAdd(GrowthSum(m2, lo, hi - 1), GrowthAt(m2, hi))

\* C22: detect_money_supply_acceleration compares the mean of the 5 most
\* recent 5-period growth rates with the mean of the 10 before them and emits
\* a signal exactly when the magnitude of the difference exceeds 0.05: level
\* high if it exceeds 0.10 and medium otherwise, bearish when the difference
\* is positive and bullish when negative; otherwise normal/neutral.
C22_MoneySupplyAcceleration ==
  Composed =>
    LET s == composite.individual_signals.m2_acceleration
        m2 == DropNa(frame.M2.values)
        n == Len(m2) IN
    IF ~frame.M2.present \/ n < 20 THEN s = DefaultSignal
    ELSE
      LET recent == FracDiv(GrowthSum(m2, n - 4, n), << 5, 1 >>)
          before == FracDiv(GrowthSum(m2, n - 14, n - 5), << 10, 1 >>)
          difference == FracSub(recent, before)
          size == Abs(difference[1]) IN
      IF 100 * size > 5 * difference[2]
        THEN /\ s.level = IF 10 * size > difference[2] THEN "high" ELSE "medium"
             /\ s.direction = IF difference[1] > 0 THEN "bearish" ELSE "bullish"
        ELSE s = DefaultSignal

\* thirty levels with an early jump that the 10 rates before the recent ones
\* do not hold, and a recent rise of 6 percent: medium and bearish
C22_Witness ==
  /\ Composed
  /\ Len(DropNa(frame.M2.values)) = 30
  /\ composite.individual_signals.m2_acceleration.level = "medium"
  /\ composite.individual_signals.m2_acceleration.direction = "bearish"
\* C23: the calculators and aligners that consume a series leave the series
\* handed to them as it was, values and index: no step of calculate_real_returns,
\* make_daily or fetch_asset_data changes the object it was handed, the
\* objects held in the fetch cache included, whatever the kind of its index.
C23_InputsUnchanged ==
  [][/\ asset_prices' = asset_prices /\ asset_index' = asset_index
     /\ inflation_series' = inflation_series /\ inflation_index' = inflation_index
     /\ x_series' = x_series
     /\ held' = held]_vars

\* fetch_asset_data has returned real series built from a cached object whose
\* index was timezone-aware when it was cached
C23_Witness ==
  /\ fpc = "done"
  /\ aligned_data.synthetic = FALSE
  /\ DOMAIN aligned_data.series # {}
  /\ \E s \in DOMAIN held : held[s].index = "naive"

\* the observations whose value reads as a number, as rows of date and number
Numeric(obs) ==
  LET kept == SelectSeq(obs, LAMBDA o : ~Float(o.value).raised) IN
  [k \in 1..Len(kept) |-> <<kept[k].date, Float(kept[k].value).number>>]

\* C24: an observation whose value is FRED's '.' or is otherwise not a number
\* is dropped and the rest of the series is still returned, in the HTTP path
\* of get_fred_data and in get_Fred: whenever some observation reads as a
\* number, the fetch returns exactly the rows that read as numbers (made
\* daily and scaled by get_Fred), with no row filled in for a dropped one.
C24_MissingDropped ==
  (fpc = "done" /\ fetched.by # "none" /\ Numeric(observations) # << >>) =>
    /\ fetched.outcome = "returned"
    /\ fetched.by = "http" => fetched.rows = Numeric(observations)
    /\ fetched.by = "get_Fred" =>
         fetched.rows = Resample([k \in 1..Len(Numeric(observations)) |->
                                    <<Numeric(observations)[k][1],
                                      Numeric(observations)[k][2] * Scale(series_id)>>])

\* the HTTP path has dropped a '.' and returned the other observations
C24_Witness ==
  /\ fpc = "done"
  /\ fetched.by = "http"
  /\ fetched.outcome = "returned"
  /\ \E k \in 1..Len(observations) : observations[k].value = "."
  /\ Len(fetched.rows) < Len(observations)

\* no thread stands between the increment of request_count and its test
Counted == \A t \in Tasks : pc[t] \notin {"stamp", "store", "check"}

\* C25: every tenth request through one optimizer takes the extra pause: for
\* every k >= 1 with ExtraEvery * k requests counted, exactly one attempt has
\* seen request_count = ExtraEvery * k and paused, whatever the order in which
\* the threads that share the counter run.
C25_EveryTenthPauses ==
  Counted => pauses = [k \in 1..(request_count \div ExtraEvery) |-> ExtraEvery * k]

\* a worker of the pool has seen the tenth request and paused
C25_Witness ==
  /\ mpc = "collect"
  /\ \E t \in 1..MaxSymbols : pc[t] = "call" /\ sleep[t] > 0
  /\ pauses = <<ExtraEvery>>

Returned == fpc = "done" /\ research # NoResearch

\* C26: whatever the providers answer, get_research_data returns a frame
\* that is not empty and has a CPI column and a P column.
C26_CpiAndPAlways ==
  Returned => /\ research.index # {}
              /\ {"CPI", "P"} \subseteq DOMAIN research.columns

\* the real frame is returned: M2SL, M2V and GDPC1 were fetched
C26_Witness ==
  /\ Returned
  /\ ~research.synthetic
  /\ {"CPI", "P"} \subseteq DOMAIN research.columns

\* the rows of the frame of the fetched series that lie inside the range
RealRows(answers) ==
  UNION {DOMAIN answers[n] : n \in DOMAIN answers} \cap ResearchRange

\* C29: synthetic data is the last resort of get_research_data: when the
\* fetched series have MinFrameRows rows or more inside the range, the frame
\* returned is the real one, whichever of M2SL, M2V and GDPC1 are missing.
C29_SyntheticLastResort ==
  (Returned /\ Cardinality(RealRows(provided)) >= MinFrameRows) => ~research.synthetic

\* synthetic data is returned because the fetched series have too few rows
\* inside the range
C29_Witness ==
  /\ Returned
  /\ research.synthetic
  /\ \E n \in ResearchNames : provided[n] # << >>
  /\ \A n \in PNeeds : provided[n] # << >>
  /\ Cardinality(RealRows(provided)) < MinFrameRows

\* C27: one call of fetch_single_symbol tries each strategy at most once, so
\* it makes at most Len(strategies) attempts and none on a cache hit; it is
\* never left by an exception, and it always returns.
C27_EachStrategyOnce ==
  /\ [](op = "fetch_single_symbol" =>
          /\ Len(tried[0]) <= Len(strategies)
          /\ \A a, b \in 1..Len(tried[0]) :
                tried[0][a].strategy = tried[0][b].strategy => a = b
          /\ entry # {} => (tried[0] = << >> /\ pc[0] = "returned")
          /\ pc[0] = "returned" => ret[0] # Raised)
  /\ ((op = "fetch_single_symbol" /\ pc[0] # "returned") ~> pc[0] = "returned")

\* a call has returned the empty series after one attempt with each strategy
C27_Witness ==
  /\ op = "fetch_single_symbol"
  /\ pc[0] = "returned"
  /\ ret[0] = << >>
  /\ [n \in 1..Len(tried[0]) |-> tried[0][n].strategy] = strategies

\* C28: whatever fetches and clear_cache calls were made, every entry of
\* the cache of the optimizer, of the handler's Yahoo cache and of the
\* CoinGecko fetcher is a series that is not empty.
C28_NoEmptyCached ==
  /\ \A k \in DOMAIN cache : cache[k] # << >>
  /\ \A k \in DOMAIN yfinance_data_cache : yfinance_data_cache[k] # << >>
  /\ \A k \in DOMAIN cg_cache : cg_cache[k] # << >>

\* get_price_history has returned the empty series and an entry for its key
\* is in the cache of the fetcher
C28_Witness ==
  /\ op = "get_price_history"
  /\ pc[0] = "returned"
  /\ ret[0] = << >>
  /\ entry = {}
  /\ key[0] \in DOMAIN cg_cache

\* C30: get_trading_recommendations returns a list that is not empty for
\* every composite signal generate_composite_signal produces, whatever its
\* level, direction and strength.
C30_AlwaysRecommends == fpc = "recommended" => recommendations # << >>

\* the recommendations for a high bearish composite signal
C30_Witness ==
  /\ fpc = "recommended"
  /\ composite.level = "high"
  /\ composite.direction = "bearish"
  /\ Len(recommendations) = 5

====
